---- MODULE Spec2Model ----
(***************************************************************************)
(* State-machine model of the Cloude Code controller: the Session Registry *)
(* (src/core/session_manager.py), its output fan-out hub, the Quick and    *)
(* Named tunnel strategies behind the hybrid facade, the auto-tunnel       *)
(* orchestrator and the WebSocket gateway.  Coroutines are cut at their    *)
(* real suspension points: an await that never yields to the event loop    *)
(* (an unbounded Queue.put, a coroutine doing only synchronous I/O) stays  *)
(* inside one action.                                                      *)
(***************************************************************************)
EXTENDS Integers, Sequences, FiniteSets, TLC

\* ------------------------------------------------------------------ bounds
MaxSessions == 2      \* create_session calls that spawn a terminal child
MaxChunks == 2        \* chunks of output the terminal child produces
MaxResizes == 1        \* window-change signals sent to one terminal child
MaxRegs == 3           \* handlers registered with the Pattern Scanner
MaxLineLen == 3        \* words in a line handed to extract_port
MaxQueues == 2        \* output-hub queues handed out by subscribe_output
MaxScans == 2         \* lines handed to the Pattern Scanner
MaxCalls == 1         \* Quick create_tunnel calls suspended at once
MaxRefs == 2          \* Tunnel objects allocated
MaxClock == 1         \* seconds the wall clock advances
MaxConns == 2         \* gateway connections accepted
MaxCommands == 1      \* send_command calls that reach the terminal in one session
log_buffer_size == 2  \* Settings.log_buffer_size, 1000 in config.py, scaled down
MaxLogs == 3          \* add_log_entry calls in one session

\* ------------------------------------------------------- program constants
TunnelQueueMax == 50  \* asyncio.Queue(maxsize=50), orchestrator events
LogQueueMax == 100    \* asyncio.Queue(maxsize=100), log events
OutputQueueMax == 0   \* asyncio.Queue(): maxsize 0 means unbounded

Ports == {3000, 8080}

VARIABLES
    phase,              \* "boot" before SessionManager() ran, then "up"; "blocked" while
                        \* the event loop thread sits in a blocking call
    disk,               \* persisted session record: <<>> or <<record>>
    osProc,             \* pid -> "none" | "own" | "foreign" | "deaf" (own, ignoring SIGTERM)
    tty,                \* pid -> the pseudo-terminal forked for it: master descriptor,
                        \* kernel window size, SIGWINCH signals sent to the child
    nextPid,            \* next pid pty.fork() hands out
    session,            \* SessionManager.session: <<>> or <<record>>
    pty,                \* SessionManager.pty: <<>> or <<[pid, running]>>
    stopping,           \* pids whose destroy_session awaits pty.stop()
    outputSubscribers,  \* SessionManager._output_subscribers (list of queues)
    queues,             \* every asyncio.Queue made so far: <<[maxsize, items], ...>>
    producer,           \* _handle_pty_output suspended in put: <<>> or <<[chunk, rest]>>
    emitted,            \* chunks the terminal child has produced so far
    outputLog,          \* history: the chunks broadcast, in emission order
    clock,              \* wall clock, whole seconds
    tobj,               \* every Tunnel object made so far; a reference is an index
    isNamed,            \* HybridTunnelManager._is_named
    namedFailed,        \* history: Named initialize() has failed
    quickTunnels,       \* TunnelManager.tunnels: dict id -> Tunnel
    tunnelProcesses,    \* TunnelManager._tunnel_processes: dict id -> process
    procs,              \* every tunnel-client process spawned: "alive" | "dead"
    namedTunnels,       \* NamedTunnelManager.tunnels: dict port -> Tunnel
    ingress,            \* the ingress list of the Named config file
    detectedPorts,      \* AutoTunnelOrchestrator._detected_ports
    eventLog,           \* history: the tunnel events broadcast, in emission order
    readyTasks,         \* orchestrator tasks made by create_task, not yet run
    quickCalls,         \* Quick create_tunnel calls suspended in _extract_tunnel_url
    createCalls,        \* history: create_tunnel calls the orchestrator issued, per port
    scans,              \* history: lines handed to the Pattern Scanner
    extracted,          \* the last extract_port call: <<>> or <<[text, port]>>
    callbacks,          \* PatternDetector.callbacks: pattern name -> handlers registered
    invoked,            \* the handler calls the last detect_patterns made, in order
    matches,            \* what the last detect_patterns returned
    autoSubscribers,    \* AutoTunnelOrchestrator._subscribers (set of queues)
    logSubscribers,     \* LogMonitor._subscribers (set of queues)
    conns,              \* gateway connections accepted so far
    forwarded,          \* history: queue -> messages its relay task sent to the client
    log_buffer,         \* SessionManager.log_buffer
    command_count,      \* SessionManager.command_count
    logged,             \* entries handed to add_log_entry since the last destroy
    resp                \* outcome of the last completed public call

logVars == <<log_buffer, command_count, logged>>
sessVars == <<phase, disk, osProc, tty, logVars, nextPid, session, pty, stopping>>
hubVars == <<outputSubscribers, queues, producer, emitted, outputLog>>
stratVars == <<tobj, quickTunnels, tunnelProcesses, procs, namedTunnels, ingress>>
facadeVars == <<isNamed, namedFailed>>
scanVars == <<extracted, callbacks, invoked, matches>>
autoVars == <<detectedPorts, eventLog, readyTasks, quickCalls, createCalls, scans, scanVars>>
tunVars == <<clock, stratVars, facadeVars, autoVars>>
gwVars == <<autoSubscribers, logSubscribers, conns, forwarded>>
regVars == <<phase, osProc, tty, logVars, nextPid, pty, stopping>>
vars == <<sessVars, hubVars, tunVars, gwVars, resp>>

\* ------------------------------------------------------------ sequences
RECURSIVE SeqToSet(_)
SeqToSet(s) == IF s = <<>> THEN {} ELSE {Head(s)} \cup SeqToSet(Tail(s))

RECURSIVE Without(_, _)
\* list.remove(x): drops the first occurrence of x
Without(s, x) ==
    IF s = <<>> THEN <<>>
    ELSE IF Head(s) = x THEN Tail(s)
    ELSE <<Head(s)>> \o Without(Tail(s), x)

\* ------------------------------------------------- dicts (insertion-ordered)
Entry(k, v) == [k |-> k, v |-> v]
DictHas(d, k) == \E i \in 1..Len(d) : d[i].k = k
DictGet(d, k) == d[CHOOSE i \in 1..Len(d) : d[i].k = k].v
DictSet(d, k, v) ==
    IF DictHas(d, k)
    THEN [i \in 1..Len(d) |-> IF d[i].k = k THEN Entry(k, v) ELSE d[i]]
    ELSE Append(d, Entry(k, v))
RECURSIVE DictDel(_, _)
DictDel(d, k) ==
    IF d = <<>> THEN <<>>
    ELSE IF Head(d).k = k THEN Tail(d)
    ELSE <<Head(d)>> \o DictDel(Tail(d), k)
DictKeys(d) == [i \in 1..Len(d) |-> d[i].k]
DictValues(d) == [i \in 1..Len(d) |-> d[i].v]

\* ------------------------------------------------------------- responses
Resp(op, res) == [op |-> op, res |-> res]

\* ------------------------------------------------------- terminal output
\* What the terminal prints, one line per chunk, as the words the Pattern
\* Scanner's regular expressions look at:
\*   "srv"  server                      "run"  running | listening | started
\*   "rdy"  ready | available           "txt"  any other word
\*   [lh |-> p]    localhost:p, 127.0.0.1:p, 0.0.0.0:p, [::1]:p
\*   [port |-> p]  "port p"
Lh(p) == [kind |-> "lh", port |-> p]
PortWord(p) == [kind |-> "port", port |-> p]
Word(w) == [kind |-> w, port |-> 0]

Lines ==
    { <<Word("srv"), Word("run"), Lh(3000)>>,      \* Server running at http://localhost:3000
      <<Word("txt"), Word("run"), PortWord(8080)>>, \* App listening on port 8080
      <<Word("srv"), Lh(3000), Word("rdy")>>,      \* dev server at localhost:3000 ready
      <<Word("txt")>> }                             \* nothing of interest

\* base64.b64encode(data).decode('utf-8') and base64.b64decode: the encoded
\* form is a different value from the bytes it encodes.
b64encode(data) == [b64 |-> data]
b64decode(text) == text.b64

\* ------------------------------------------------------ Session Registry
NoPid == 0

\* os.kill(pid, 0): the three answers the kernel gives
Probe(pid) ==
    CASE osProc[pid] \in {"own", "deaf"} -> "ok"
      [] osProc[pid] = "foreign" -> "PermissionError"
      [] OTHER -> "ProcessLookupError"

Pids == 1..(MaxSessions + 1)

\* json.dump(self.session.model_dump()): the record as it is written to
\* disk, its tunnels by value
Snapshot(sess, heap) ==
    [sess EXCEPT !.tunnels = [i \in 1..Len(sess.tunnels) |-> heap[sess.tunnels[i]]]]

\* The part of the state the strategies and the registry work on together
CurW ==
    [tobj |-> tobj, qt |-> quickTunnels, tp |-> tunnelProcesses, procs |-> procs,
     nt |-> namedTunnels, ingress |-> ingress, session |-> session, disk |-> disk]

Commit(w) ==
    /\ tobj' = w.tobj
    /\ quickTunnels' = w.qt
    /\ tunnelProcesses' = w.tp
    /\ procs' = w.procs
    /\ namedTunnels' = w.nt
    /\ ingress' = w.ingress
    /\ session' = w.session
    /\ disk' = w.disk

_save_session_metadata(w) ==
    IF w.session = <<>> THEN w
    ELSE [w EXCEPT !.disk = <<Snapshot(w.session[1], w.tobj)>>]

\* a liveness test of the handle where the code tests only its presence
has_active_session_bad ==
    /\ session # <<>>
    /\ session[1].status = "running"
    /\ pty # <<>>
    /\ pty[1].running
\* a test that any session is on record, whatever its status
has_active_session_any == session # <<>>

\* a test of the record alone
has_active_session_rec ==
    /\ session # <<>>
    /\ session[1].status = "running"
has_active_session ==
    /\ session # <<>>
    /\ session[1].status = "running"
    /\ pty # <<>>

\* ------------------------------------------------------- Tunnel strategies
Tunnel(id, sid, port, url, status, pid) ==
    [id |-> id, session_id |-> sid, port |-> port, public_url |-> url,
     status |-> status, process_pid |-> pid]

\* f"tun_{port}_{int(datetime.utcnow().timestamp())}"
TunnelId(port, now) == <<port, now>>

\* session.tunnels.append(tunnel) on the Session object the call captured,
\* which is the registry's Session only while that one is still in place
AppendToSession(w, sid, ref) ==
    IF w.session # <<>> /\ w.session[1].id = sid
    THEN [w EXCEPT !.session[1].tunnels = Append(@, ref)]
    ELSE w

\* session.tunnels = [t for t in session.tunnels if t.id != tunnel_id]
DropFromSession(w, id) ==
    IF w.session = <<>> THEN w
    ELSE _save_session_metadata(
           [w EXCEPT !.session[1].tunnels =
               SelectSeq(@, LAMBDA r : w.tobj[r].id # id)])

\* TunnelManager.create_tunnel, lines 60-63
ActiveOnPort(w, port) ==
    SelectSeq(DictValues(w.qt),
              LAMBDA r : w.tobj[r].port = port /\ w.tobj[r].status = "active")

\* lines 67-75
QuickBegin(w, id, sid, port) ==
    [w EXCEPT !.tobj = Append(@, Tunnel(id, sid, port, "", "creating", NoPid)),
              !.qt = DictSet(@, id, Len(w.tobj) + 1)]

\* lines 79-88
QuickSpawn(w, id, ref) ==
    [w EXCEPT !.procs = Append(@, "alive"),
              !.tp = DictSet(@, id, Len(w.procs) + 1),
              !.tobj[ref].process_pid = Len(w.procs) + 1]

\* lines 102-107
QuickSucceed(w, sid, ref) ==
    _save_session_metadata(
        AppendToSession(
            [w EXCEPT !.tobj[ref].public_url = "url", !.tobj[ref].status = "active"],
            sid, ref))

\* lines 118-121
QuickFail(w, ref) == [w EXCEPT !.tobj[ref].status = "error"]

Exited(w, proc) == [w EXCEPT !.procs[proc] = "dead"]

QuickOutcomes == {"spawn_failed", "died", "url", "wait"}
NamedOutcomes == {"dns_ok", "dns_raise"}

\* TunnelManager.create_tunnel from its check for an Active tunnel up to the
\* first "await asyncio.sleep" of _extract_tunnel_url.  out is what the
\* tunnel client does: it cannot be spawned, it exits before printing, its
\* first line carries the URL, or it prints something else first.
QuickCreate(w, port, now, sid, out) ==
    LET id == TunnelId(port, now)
        ref == Len(w.tobj) + 1
        proc == Len(w.procs) + 1
        begun == QuickBegin(w, id, sid, port)
        spawned == QuickSpawn(begun, id, ref)
    IN IF ActiveOnPort(w, port) # <<>>
       THEN [w |-> w, res |-> "ok", ref |-> Head(ActiveOnPort(w, port)), proc |-> 0, new |-> FALSE]
       ELSE CASE out = "spawn_failed" ->
                   [w |-> QuickFail(begun, ref), res |-> "error", ref |-> ref, proc |-> 0, new |-> TRUE]
              [] out = "died" ->
                   [w |-> QuickFail(Exited(spawned, proc), ref), res |-> "error",
                    ref |-> ref, proc |-> proc, new |-> TRUE]
              [] out = "url" ->
                   [w |-> QuickSucceed(spawned, sid, ref), res |-> "ok",
                    ref |-> ref, proc |-> proc, new |-> TRUE]
              [] OTHER ->
                   [w |-> spawned, res |-> "wait", ref |-> ref, proc |-> proc, new |-> TRUE]

\* TunnelManager.destroy_tunnel for an id the dict holds
QuickDestroy(w, id) ==
    LET ref == DictGet(w.qt, id)
        killed == IF DictHas(w.tp, id)
                  THEN [w EXCEPT !.procs[DictGet(w.tp, id)] = "dead",
                                 !.tp = DictDel(@, id)]
                  ELSE w
        stopped == [killed EXCEPT !.tobj[ref].status = "stopped"]
        dropped == DropFromSession(stopped, id)
    IN [dropped EXCEPT !.qt = DictDel(@, id)]

RECURSIVE QuickDestroyEach(_, _)
QuickDestroyEach(w, ids) ==
    IF ids = <<>> THEN w
    ELSE QuickDestroyEach(
           IF DictHas(w.qt, Head(ids)) THEN QuickDestroy(w, Head(ids)) ELSE w,
           Tail(ids))

\* TunnelManager.destroy_all_tunnels
QuickDestroyAll(w) == QuickDestroyEach(w, DictKeys(w.qt))

\* a loop without the try: the first failure ends it and reaches the caller
RECURSIVE destroy_all_tunnels_bad(_, _, _)
destroy_all_tunnels_bad(w, ids, failing) ==
    IF ids = <<>> THEN [w |-> w, raised |-> FALSE]
    ELSE IF ~DictHas(w.qt, Head(ids)) \/ w.tobj[DictGet(w.qt, Head(ids))].port \in failing
    THEN [w |-> w, raised |-> TRUE]
    ELSE destroy_all_tunnels_bad(QuickDestroy(w, Head(ids)), Tail(ids), failing)

\* TunnelManager.destroy_all_tunnels over the identifiers it copied; failing
\* holds the ports whose destroy_tunnel raises (terminate or kill raising,
\* before anything is changed): the except logs it and the loop goes on
RECURSIVE destroy_all_tunnels(_, _, _)
destroy_all_tunnels(w, ids, failing) ==
    IF ids = <<>> THEN [w |-> w, raised |-> FALSE]
    ELSE IF ~DictHas(w.qt, Head(ids)) \/ w.tobj[DictGet(w.qt, Head(ids))].port \in failing
    THEN destroy_all_tunnels(w, Tail(ids), failing)
    ELSE destroy_all_tunnels(QuickDestroy(w, Head(ids)), Tail(ids), failing)

\* ------------------------------------------------------------ Named strategy
\* an ingress rule by its hostname: the root domain, "{port}.{domain}", or
\* none for the closing http_status:404 rule
RootRule == [hostname |-> "domain", port |-> 0]
CatchAll == [hostname |-> "none", port |-> 0]
PortRule(port) == [hostname |-> "port.domain", port |-> port]

\* list.insert(-1, x)
InsertBeforeLast(s, x) ==
    IF s = <<>> THEN <<x>>
    ELSE SubSeq(s, 1, Len(s) - 1) \o <<x>> \o <<s[Len(s)]>>

\* NamedTunnelManager._create_tunnel_config
InitialIngress == <<RootRule, CatchAll>>

\* a rule added after the last one
_add_ingress_rule_bad(rules, port) == Append(rules, PortRule(port))

\* NamedTunnelManager._add_ingress_rule
_add_ingress_rule(rules, port) == InsertBeforeLast(rules, PortRule(port))

\* NamedTunnelManager._remove_ingress_rule
_remove_ingress_rule(rules, port) ==
    SelectSeq(rules, LAMBDA r : r # PortRule(port))

\* NamedTunnelManager.add_port_mapping, for a caller with an active session;
\* dns is what create_cname_for_port does
NamedAdd(w, port, now, sid, dns) ==
    LET ref == Len(w.tobj) + 1
        made == [w EXCEPT
                   !.ingress = _add_ingress_rule(@, port),
                   !.tobj = Append(@, Tunnel(TunnelId(port, now), sid, port,
                                             "url", "active", NoPid)),
                   !.nt = DictSet(@, port, ref)]
    IN IF DictHas(w.nt, port)
       THEN [w |-> w, res |-> "ok", ref |-> DictGet(w.nt, port), proc |-> 0, new |-> FALSE]
       ELSE IF dns = "dns_raise"
       THEN [w |-> w, res |-> "error", ref |-> 0, proc |-> 0, new |-> FALSE]
       ELSE [w |-> _save_session_metadata(AppendToSession(made, sid, ref)),
             res |-> "ok", ref |-> ref, proc |-> 0, new |-> TRUE]

\* NamedTunnelManager.remove_port_mapping
NamedRemove(w, port) ==
    IF ~DictHas(w.nt, port) THEN w
    ELSE LET id == w.tobj[DictGet(w.nt, port)].id
             cut == [w EXCEPT !.ingress = _remove_ingress_rule(@, port),
                              !.nt = DictDel(@, port)]
         IN DropFromSession(cut, id)

RECURSIVE NamedRemoveEach(_, _)
NamedRemoveEach(w, ports) ==
    IF ports = <<>> THEN w
    ELSE NamedRemoveEach(NamedRemove(w, Head(ports)), Tail(ports))

\* remove_port_mapping when _remove_ingress_rule may raise: the except
\* returns False and the mapping stays
remove_port_mapping(w, port, failing) ==
    IF port \in failing /\ DictHas(w.nt, port) THEN w ELSE NamedRemove(w, port)

RECURSIVE RemoveEachMapping(_, _, _)
RemoveEachMapping(w, ports, failing) ==
    IF ports = <<>> THEN [w |-> w, raised |-> FALSE]
    ELSE RemoveEachMapping(remove_port_mapping(w, Head(ports), failing), Tail(ports), failing)

\* ------------------------------------------------------------ Hybrid facade
\* HybridTunnelManager.destroy_all_tunnels when single destroys may fail
FacadeDestroyAllOf(w, failing) ==
    IF isNamed THEN RemoveEachMapping(w, DictKeys(w.nt), failing)
    ELSE destroy_all_tunnels(w, DictKeys(w.qt), failing)

\* HybridTunnelManager.destroy_all_tunnels
FacadeDestroyAll(w) ==
    IF isNamed THEN NamedRemoveEach(w, DictKeys(w.nt)) ELSE QuickDestroyAll(w)

\* HybridTunnelManager.create_tunnel, for a caller with an active session
FacadeCreate(w, port, now, sid, out) ==
    IF isNamed THEN NamedAdd(w, port, now, sid, out)
    ELSE QuickCreate(w, port, now, sid, out)

Outcomes == IF isNamed THEN NamedOutcomes ELSE QuickOutcomes

\* The tunnels the active strategy holds
StrategyRefs == IF isNamed THEN DictValues(namedTunnels) ELSE DictValues(quickTunnels)

\* ---------------------------------------------------------- Pattern Scanner
\* The least index from i on whose word is of a kind in K, or 0
RECURSIVE FirstAt(_, _, _)
FirstAt(line, i, K) ==
    IF i > Len(line) THEN 0
    ELSE IF line[i].kind \in K THEN i
    ELSE FirstAt(line, i + 1, K)

\* regex.search for each port-revealing pattern: <<>> or <<match.group(0)>>
MatchLocalhost(line) ==
    LET i == FirstAt(line, 1, {"lh"})
    IN IF i = 0 THEN <<>> ELSE <<SubSeq(line, i, i)>>

MatchServerReady(line) ==
    LET i == FirstAt(line, 1, {"srv"})
        j == IF i = 0 THEN 0 ELSE FirstAt(line, i + 1, {"run", "rdy"})
    IN IF j = 0 THEN <<>> ELSE <<SubSeq(line, i, j)>>

MatchListening(line) ==
    LET i == FirstAt(line, 1, {"run"})
        j == IF i = 0 THEN 0 ELSE FirstAt(line, i + 1, {"lh", "port"})
    IN IF j = 0 THEN <<>> ELSE <<SubSeq(line, i, j)>>

\* a lookup that tries the generic listening pattern first
extract_port_bad(text) ==
    LET i == FirstAt(text, 1, {"lh"})
        m == MatchListening(text)
    IN IF m # <<>> THEN m[1][Len(m[1])].port
       ELSE IF i # 0 THEN text[i].port
       ELSE 0

\* PatternDetector.extract_port; 0 stands for None
extract_port(text) ==
    LET i == FirstAt(text, 1, {"lh"})
        m == MatchListening(text)
    IN IF i # 0 THEN text[i].port
       ELSE IF m # <<>> THEN m[1][Len(m[1])].port
       ELSE 0

Task(handler, text) == [handler |-> handler, text |-> text]

\* PatternDetector.detect_patterns with the callbacks
\* AutoTunnelOrchestrator.initialize registered: one task per matching pattern
NewTasks(line) ==
    (IF MatchLocalhost(line) # <<>>
     THEN <<Task("_on_localhost_detected", MatchLocalhost(line)[1])>> ELSE <<>>)
    \o (IF MatchServerReady(line) # <<>>
        THEN <<Task("_on_server_ready", MatchServerReady(line)[1])>> ELSE <<>>)
    \o (IF MatchListening(line) # <<>>
        THEN <<Task("_on_localhost_detected", MatchListening(line)[1])>> ELSE <<>>)

\* the words a line is made of, and the lines extract_port is asked about
Tokens == {Word("srv"), Word("run"), Word("rdy"), Word("txt"),
           Lh(3000), Lh(8080), PortWord(3000), PortWord(8080)}
ScanLines == UNION {[1..n -> Tokens] : n \in 1..MaxLineLen}

\* a direct call of the port-extraction helper
ExtractPort(line) ==
    /\ phase = "up"
    /\ extracted' = <<[text |-> line, port |-> extract_port(line)]>>
    /\ UNCHANGED <<sessVars, hubVars, clock, stratVars, facadeVars, detectedPorts, eventLog,
                   readyTasks, quickCalls, createCalls, scans, callbacks, invoked, matches,
                   gwVars, resp>>

\* PatternDetector.PATTERNS in the order the dict is iterated, the
\* port-revealing names
PatternNames == <<"localhost_server", "server_ready", "listening_on_port">>

\* regex.search of the named pattern
Match(name, line) ==
    CASE name = "localhost_server" -> MatchLocalhost(line)
      [] name = "server_ready" -> MatchServerReady(line)
      [] OTHER -> MatchListening(line)

\* the callables a client may register; any of them may raise when called
Handlers == {"h1", "h2"}

\* PatternDetector.register_callback
register_callback(cbs, name, h) == [cbs EXCEPT ![name] = Append(@, h)]

RECURSIVE Registered(_, _)
Registered(cbs, i) ==
    IF i > Len(PatternNames) THEN 0
    ELSE Len(cbs[PatternNames[i]]) + Registered(cbs, i + 1)

RegisterCallback(name, h) ==
    /\ phase = "up"
    /\ Registered(callbacks, 1) < MaxRegs
    /\ callbacks' = register_callback(callbacks, name, h)
    /\ UNCHANGED <<sessVars, hubVars, clock, stratVars, facadeVars, detectedPorts, eventLog,
                   readyTasks, quickCalls, createCalls, scans, extracted, invoked, matches,
                   gwVars, resp>>

\* a loop that an exception leaves
RECURSIVE RunCallbacks_bad(_, _, _)
RunCallbacks_bad(name, hs, raising) ==
    IF hs = <<>> THEN <<>>
    ELSE IF Head(hs) \in raising
    THEN <<[pattern |-> name, handler |-> Head(hs), raised |-> TRUE]>>
    ELSE <<[pattern |-> name, handler |-> Head(hs), raised |-> FALSE]>>
         \o RunCallbacks_bad(name, Tail(hs), raising)

\* "for callback in self.callbacks[pattern_name]: try: callback(match)
\* except Exception: log": the calls made, in order
RECURSIVE RunCallbacks(_, _, _)
RunCallbacks(name, hs, raising) ==
    IF hs = <<>> THEN <<>>
    ELSE <<[pattern |-> name, handler |-> Head(hs), raised |-> Head(hs) \in raising]>>
         \o RunCallbacks(name, Tail(hs), raising)

\* the loop of detect_patterns from the i-th pattern on: the matches
\* collected and the handler calls made
RECURSIVE ScanFrom(_, _, _, _)
ScanFrom(i, cbs, line, raising) ==
    IF i > Len(PatternNames) THEN [matches |-> <<>>, invoked |-> <<>>]
    ELSE LET name == PatternNames[i]
             m == Match(name, line)
             rest == ScanFrom(i + 1, cbs, line, raising)
         IN IF m = <<>> THEN rest
            ELSE [matches |-> <<[pattern_name |-> name, matched_text |-> m[1]]>>
                              \o rest.matches,
                  invoked |-> RunCallbacks(name, cbs[name], raising) \o rest.invoked]

\* PatternDetector.detect_patterns
detect_patterns(cbs, line, raising) == ScanFrom(1, cbs, line, raising)

\* one scan of a line, with the handlers in raising failing when called
Scan(line, raising) ==
    /\ phase = "up"
    /\ invoked' = detect_patterns(callbacks, line, raising).invoked
    /\ matches' = detect_patterns(callbacks, line, raising).matches
    /\ UNCHANGED <<sessVars, hubVars, clock, stratVars, facadeVars, detectedPorts, eventLog,
                   readyTasks, quickCalls, createCalls, scans, extracted, callbacks,
                   gwVars, resp>>

\* LogMonitor._detect_patterns on one line of terminal output
DetectPatterns(line) ==
    /\ phase = "up"
    /\ scans < MaxScans
    /\ scans' = scans + 1
    /\ readyTasks' = readyTasks \o NewTasks(line)
    /\ UNCHANGED <<sessVars, hubVars, clock, stratVars, facadeVars, detectedPorts, eventLog,
                   quickCalls, createCalls, scanVars, gwVars, resp>>

\* ------------------------------------------------------ Output Fan-out Hub
\* asyncio.Queue.full(): a maxsize of 0 or less means the queue never fills
Full(q) == q.maxsize > 0 /\ Len(q.items) >= q.maxsize

NewQueue(maxsize) == [maxsize |-> maxsize, items |-> <<>>]

\* the loop leaving after its first put
PutAll_bad(qs, rest, chunk) ==
    IF rest = <<>> THEN [queues |-> qs, rest |-> <<>>]
    ELSE [queues |-> [qs EXCEPT ![Head(rest)].items = Append(@, chunk)], rest |-> <<>>]

\* "for queue in copy: await queue.put(x)": runs down the copied list until a
\* put would have to wait; returns the queues and what is left of the list.
RECURSIVE PutAll(_, _, _)
PutAll(qs, rest, chunk) ==
    IF rest = <<>> THEN [queues |-> qs, rest |-> <<>>]
    ELSE IF Full(qs[Head(rest)]) THEN [queues |-> qs, rest |-> rest]
    ELSE PutAll([qs EXCEPT ![Head(rest)].items = Append(@, chunk)], Tail(rest), chunk)

Suspended(r, chunk) ==
    IF r.rest = <<>> THEN <<>> ELSE <<[chunk |-> chunk, rest |-> r.rest]>>

\* a broadcast that puts the message at the front of each queue
PutNowaitAll_bad(qs, subs, msg) ==
    [q \in 1..Len(qs) |->
        IF q \in subs /\ ~Full(qs[q])
        THEN [qs[q] EXCEPT !.items = <<msg>> \o @] ELSE qs[q]]

\* a broadcast that reaches every queue there is
PutNowaitAll_every(qs, subs, msg) ==
    [q \in 1..Len(qs) |->
        IF ~Full(qs[q]) THEN [qs[q] EXCEPT !.items = Append(@, msg)] ELSE qs[q]]

\* "for queue in copy: queue.put_nowait(x)", QueueFull swallowed
PutNowaitAll(qs, subs, msg) ==
    [q \in 1..Len(qs) |->
        IF q \in subs /\ ~Full(qs[q])
        THEN [qs[q] EXCEPT !.items = Append(@, msg)] ELSE qs[q]]

\* SessionManager._handle_pty_output, called by the terminal's read loop
HandlePtyOutput(line) ==
    /\ phase = "up"
    /\ pty # <<>> /\ pty[1].running
    /\ IF producer = <<>>
       THEN /\ emitted < MaxChunks
            /\ LET chunk == b64encode([seq |-> emitted + 1, line |-> line])
                   r == PutAll(queues, outputSubscribers, chunk)
               IN /\ queues' = r.queues
                  /\ producer' = Suspended(r, chunk)
                  /\ outputLog' = Append(outputLog, chunk)
            /\ emitted' = emitted + 1
       ELSE /\ ~Full(queues[Head(producer[1].rest)])
            /\ LET r == PutAll(queues, producer[1].rest, producer[1].chunk)
               IN /\ queues' = r.queues
                  /\ producer' = Suspended(r, producer[1].chunk)
            /\ emitted' = emitted
            /\ outputLog' = outputLog
    /\ UNCHANGED <<sessVars, outputSubscribers, tunVars, gwVars, resp>>

\* SessionManager.subscribe_output
SubscribeOutput ==
    /\ phase = "up"
    /\ Len(queues) < MaxQueues
    /\ queues' = Append(queues, NewQueue(OutputQueueMax))
    /\ outputSubscribers' = Append(outputSubscribers, Len(queues) + 1)
    /\ UNCHANGED <<sessVars, producer, emitted, outputLog, tunVars, gwVars, resp>>

\* an unsubscribe that leaves the list as it was
unsubscribe_output_bad(subs, q) == subs

\* SessionManager.unsubscribe_output on the subscriber list
unsubscribe_output(subs, q) ==
    IF q \in SeqToSet(subs) THEN Without(subs, q) ELSE subs

\* a caller dropping a queue it was handed
UnsubscribeOutput(q) ==
    /\ phase = "up"
    /\ q \in 1..Len(queues)
    /\ outputSubscribers' = unsubscribe_output(outputSubscribers, q)
    /\ UNCHANGED <<sessVars, queues, producer, emitted, outputLog, tunVars, gwVars, resp>>

\* asyncio.Queue.get() returning to the queue's one consumer
QueueGet(q) ==
    /\ phase = "up"
    /\ q \in 1..Len(queues)
    /\ queues[q].items # <<>>
    /\ queues' = [queues EXCEPT ![q].items = Tail(@)]
    /\ UNCHANGED <<sessVars, outputSubscribers, producer, emitted, outputLog, tunVars, gwVars, resp>>

\* ------------------------------------------------------- startup (lifespan)
\* SessionManager.__init__ -> _load_session_metadata: Session(**data) builds
\* the record's tunnels anew, then the recorded pid is probed
Restored(rec) ==
    [rec EXCEPT !.status = "running",
                !.tunnels = [i \in 1..Len(rec.tunnels) |-> i]]

\* a probe that takes "not permitted" for alive
_load_session_metadata_bad(w) ==
    IF w.disk = <<>> THEN w
    ELSE IF w.disk[1].pty_pid # NoPid /\ Probe(w.disk[1].pty_pid) # "ProcessLookupError"
    THEN [w EXCEPT !.session = <<Restored(w.disk[1])>>,
                   !.tobj = w.disk[1].tunnels]
    ELSE [w EXCEPT !.session = <<>>, !.disk = <<>>]

_load_session_metadata(w) ==
    IF w.disk = <<>> THEN w
    ELSE IF w.disk[1].pty_pid # NoPid /\ Probe(w.disk[1].pty_pid) = "ok"
    THEN [w EXCEPT !.session = <<Restored(w.disk[1])>>,
                   !.tobj = w.disk[1].tunnels]
    ELSE [w EXCEPT !.session = <<>>, !.disk = <<>>]

InitOutcomes == {"ok", "fail_early", "fail_late"}

\* NamedTunnelManager.initialize: what it leaves in the config file
NamedInitIngress(rules, out) ==
    IF out = "fail_early" THEN rules ELSE InitialIngress

\* an initialize that tries Named again whatever the facade has settled on
FacadeInit_bad(out) ==
    /\ ingress' = NamedInitIngress(ingress, out)
    /\ isNamed' = (out = "ok")
    /\ namedFailed' = (namedFailed \/ out # "ok")
    /\ UNCHANGED <<quickTunnels, tunnelProcesses>>

\* HybridTunnelManager.initialize; out is how Named initialize() ends
FacadeInit(out) ==
    IF isNamed
    THEN /\ ingress' = NamedInitIngress(ingress, out)
         /\ isNamed' = (out = "ok")
         /\ namedFailed' = (namedFailed \/ out # "ok")
         /\ quickTunnels' = IF out = "ok" THEN quickTunnels ELSE <<>>
         /\ tunnelProcesses' = IF out = "ok" THEN tunnelProcesses ELSE <<>>
    ELSE UNCHANGED <<ingress, isNamed, namedFailed, quickTunnels, tunnelProcesses>>

\* main.lifespan up to its yield
Startup(out) ==
    /\ phase = "boot"
    /\ phase' = "up"
    /\ pty' = <<>>
    /\ LET w == _load_session_metadata(CurW)
       IN /\ session' = w.session
          /\ disk' = w.disk
          /\ tobj' = w.tobj
    /\ FacadeInit(out)
    /\ resp' = Resp("startup", "ok")
    /\ UNCHANGED <<osProc, tty, logVars, nextPid, stopping, hubVars, clock, procs, namedTunnels,
                   autoVars, gwVars>>

\* HybridTunnelManager.initialize called once more
FacadeInitialize(out) ==
    /\ phase = "up"
    /\ FacadeInit(out)
    /\ resp' = Resp("initialize", IF isNamed /\ out # "ok" THEN "false" ELSE "true")
    /\ UNCHANGED <<sessVars, hubVars, clock, tobj, procs, namedTunnels, autoVars, gwVars>>

\* the step of NamedTunnelManager.initialize that fails, if any
InitSteps == {"none", "identity", "config", "process", "alive", "root_dns"}

\* an initialize that gives up when the root record cannot be provisioned
initialize_bad(fails) ==
    CASE fails = "none" -> "ok"
      [] fails \in {"identity", "config"} -> "fail_early"
      [] OTHER -> "fail_late"

\* NamedTunnelManager.initialize: how it ends.  Each step but the last
\* raises into "except Exception: return False", before or after the config
\* file is written; create_root_cname returns None, which is only logged.
initialize(fails) ==
    CASE fails \in {"none", "root_dns"} -> "ok"
      [] fails \in {"identity", "config"} -> "fail_early"
      [] OTHER -> "fail_late"

\* HybridTunnelManager.initialize with the named step failing
NamedInitialize(fails) == FacadeInitialize(initialize(fails))

\* ------------------------------------------------------ Terminal Process
\* struct.pack("HHHH", ...): each field is an unsigned short
UShortMax == 65535

\* no pseudo-terminal, and the one pty.fork() returns
\* (asked is history: the size the last resize of a Running terminal named;
\* delivered counts the calls of the output callback)
NoTty == [master_fd |-> "none", cols |-> 0, rows |-> 0, winch |-> 0, asked |-> <<>>,
          delivered |-> 0]
Forked == [master_fd |-> "open", cols |-> 0, rows |-> 0, winch |-> 0, asked |-> <<>>,
           delivered |-> 0]

\* an ioctl with the two fields the other way round
_set_terminal_size_bad(t, cols, rows) == [t EXCEPT !.cols = rows, !.rows = cols]

\* PTYSession._set_terminal_size: ioctl(TIOCSWINSZ) with (rows, cols, 0, 0)
_set_terminal_size(t, cols, rows) == [t EXCEPT !.cols = cols, !.rows = rows]

\* ------------------------------------------------- Session Registry actions
NewSession(pid) ==
    [id |-> pid, pty_pid |-> pid, status |-> "running", tunnels |-> <<>>,
     last_activity |-> clock]

\* a clear() that leaves the list as it was
clear_bad(list) == list

\* list.clear() as destroy_session applies it to the log buffer and to the
\* subscriber list
clear(list) == <<>>

\* SessionManager.create_session; fork is pty.fork() succeeding or not
CreateSession(fork) ==
    /\ phase = "up"
    /\ IF has_active_session
       THEN /\ resp' = Resp("create_session", "already_running")
            /\ UNCHANGED <<sessVars>>
       ELSE IF fork = "ok"
       THEN /\ nextPid <= MaxSessions + 1
            /\ pty' = <<[pid |-> nextPid, running |-> TRUE]>>
            /\ osProc' = [osProc EXCEPT ![nextPid] = "own"]
            /\ tty' = [tty EXCEPT ![nextPid] = _set_terminal_size(Forked, 80, 24)]
            /\ nextPid' = nextPid + 1
            /\ session' = <<NewSession(nextPid)>>
            /\ disk' = <<Snapshot(NewSession(nextPid), tobj)>>
            /\ resp' = Resp("create_session", "ok")
            /\ UNCHANGED <<phase, logVars, stopping>>
       ELSE /\ pty' = <<[pid |-> NoPid, running |-> FALSE]>>
            /\ session' = <<>>
            /\ disk' = IF session # <<>> THEN <<>> ELSE disk
            /\ resp' = Resp("create_session", "spawn_failed")
            /\ UNCHANGED <<phase, osProc, tty, logVars, nextPid, stopping>>
    /\ UNCHANGED <<hubVars, tunVars, gwVars>>

\* The tail of destroy_session, after "await self.pty.stop()" has returned
DestroyFinish(w) ==
    /\ pty' = <<>>
    /\ IF w.session = <<>>
       THEN /\ resp' = Resp("destroy_session", "error")
            /\ Commit(w)
            /\ UNCHANGED <<outputSubscribers, logVars>>
       ELSE /\ Commit([w EXCEPT !.session = <<>>, !.disk = <<>>])
            /\ log_buffer' = clear(log_buffer)
            /\ logged' = <<>>
            /\ command_count' = 0
            /\ outputSubscribers' = clear(outputSubscribers)
            /\ resp' = Resp("destroy_session", "ok")

\* DELETE /sessions: every tunnel is destroyed, then
\* SessionManager.destroy_session runs up to its first suspension: pty.stop()
\* yields only when the terminal is still running.
DestroySession ==
    /\ phase = "up"
    /\ LET w == FacadeDestroyAll(CurW)
       IN IF w.session = <<>>
          THEN /\ resp' = Resp("destroy_session", "no_session")
               /\ Commit(w)
               /\ UNCHANGED <<pty, stopping, outputSubscribers, logVars>>
          ELSE IF pty # <<>> /\ pty[1].running
          THEN /\ pty' = <<[pty[1] EXCEPT !.running = FALSE]>>
               /\ stopping' = stopping \cup {pty[1].pid}
               /\ Commit(w)
               /\ UNCHANGED <<outputSubscribers, logVars, resp>>
          ELSE /\ DestroyFinish(w)
               /\ UNCHANGED stopping
    /\ UNCHANGED <<phase, osProc, tty, nextPid, queues, producer, emitted, outputLog, clock,
                   facadeVars, autoVars, gwVars>>

\* The child receives the SIGTERM of pty.stop() and does not exit: it
\* handles or ignores the signal, as an interactive shell does
TermIgnored(pid) ==
    /\ pid \in stopping
    /\ osProc[pid] = "own"
    /\ osProc' = [osProc EXCEPT ![pid] = "deaf"]
    /\ tty' = tty
    /\ UNCHANGED logVars
    /\ UNCHANGED <<phase, disk, nextPid, session, pty, stopping, hubVars, tunVars,
                   gwVars, resp>>

\* pty.stop() returns: reader task gone, child terminated and reaped by
\* os.waitpid(pid, 0), which returns only once the child has exited
DestroyResume(pid) ==
    /\ phase = "up"
    /\ pid \in stopping
    /\ osProc[pid] # "deaf"
    /\ stopping' = stopping \ {pid}
    /\ osProc' = [osProc EXCEPT ![pid] = "none"]
    /\ tty' = [tty EXCEPT ![pid].master_fd = "closed"]
    /\ DestroyFinish(CurW)
    /\ UNCHANGED <<phase, nextPid, queues, producer, emitted, outputLog, clock,
                   facadeVars, autoVars, gwVars>>

\* os.write on the master descriptor raises EIO once the child, the only
\* holder of the slave side, is gone
SlaveOpen(pid) == osProc[pid] \in {"own", "deaf"}

\* GET /sessions -> SessionManager.get_session_info
GetInfo ==
    /\ phase = "up"
    /\ resp' = Resp("get_session_info", IF has_active_session THEN "session" ELSE "not_found")
    /\ UNCHANGED <<sessVars, hubVars, tunVars, gwVars>>

\* SessionManager.send_command: the command and a newline written to the
\* terminal, the activity time set, the record saved
SendCommand ==
    /\ phase = "up"
    /\ IF session = <<>> \/ session[1].status # "running" \/ pty = <<>>
       THEN /\ resp' = Resp("send_command", "no_session")
            /\ UNCHANGED <<session, disk, command_count>>
       ELSE IF ~pty[1].running \/ ~SlaveOpen(pty[1].pid)
       THEN /\ resp' = Resp("send_command", "write_failed")
            /\ UNCHANGED <<session, disk, command_count>>
       ELSE /\ command_count < MaxCommands
            /\ session' = <<[session[1] EXCEPT !.last_activity = clock]>>
            /\ command_count' = command_count + 1
            /\ disk' = <<Snapshot(session'[1], tobj)>>
            /\ resp' = Resp("send_command", "ok")
    /\ UNCHANGED <<phase, osProc, tty, log_buffer, logged, nextPid, pty, stopping, hubVars,
                   tunVars, gwVars>>

\* what callers log
LogContents == {"out", "err"}

LogEntry(sid, content) == [session_id |-> sid, content |-> content]

\* list[-n:] for n >= 1
LastN(list, n) ==
    IF Len(list) <= n THEN list ELSE SubSeq(list, Len(list) - n + 1, Len(list))

\* a buffer that drops the newest entry when it is full
add_log_entry_bad(buffer, sess, content, size) ==
    IF sess = <<>> THEN buffer
    ELSE IF Len(buffer) >= size THEN buffer
    ELSE Append(buffer, LogEntry(sess[1].id, content))

\* SessionManager.add_log_entry on the buffer
add_log_entry(buffer, sess, content, size) ==
    IF sess = <<>> THEN buffer
    ELSE LET appended == Append(buffer, LogEntry(sess[1].id, content))
         IN IF Len(appended) > size THEN LastN(appended, size) ELSE appended

\* a caller logging one line; logged keeps every entry handed over while a
\* session exists
AddLogEntry(content) ==
    /\ phase = "up"
    /\ session # <<>> => Len(logged) < MaxLogs
    /\ log_buffer' = add_log_entry(log_buffer, session, content, log_buffer_size)
    /\ logged' = IF session = <<>> THEN logged
                 ELSE Append(logged, LogEntry(session[1].id, content))
    /\ UNCHANGED <<phase, disk, osProc, tty, command_count, nextPid, session, pty, stopping,
                   hubVars, tunVars, gwVars, resp>>

\* SessionManager.get_recent_logs
get_recent_logs(buffer, limit) == LastN(buffer, limit)

\* SessionManager.send_input: the bytes written to the terminal, the
\* activity time set
SendInput ==
    /\ phase = "up"
    /\ IF session = <<>> \/ pty = <<>> \/ session[1].status # "running"
       THEN /\ resp' = Resp("send_input", "no_session")
            /\ UNCHANGED session
       ELSE IF ~pty[1].running \/ ~SlaveOpen(pty[1].pid)
       THEN /\ resp' = Resp("send_input", "write_failed")
            /\ UNCHANGED session
       ELSE /\ session' = <<[session[1] EXCEPT !.last_activity = clock]>>
            /\ resp' = Resp("send_input", "ok")
    /\ UNCHANGED <<phase, disk, osProc, tty, logVars, nextPid, pty, stopping, hubVars, tunVars, gwVars>>

\* the sizes a client asks for: two ordinary ones and one no unsigned short holds
ResizeValues == {40, 100, UShortMax + 1}

\* PTYSession.resize on the terminal of child pid: nothing unless Running
\* with a descriptor; struct.pack raises for a value that is no unsigned
\* short, before the ioctl; then SIGWINCH, which only a living child receives
resize(t, running, alive, cols, rows) ==
    IF ~running \/ t.master_fd # "open" THEN t
    ELSE IF cols > UShortMax \/ rows > UShortMax THEN t
    ELSE [_set_terminal_size(t, cols, rows) EXCEPT
              !.winch = IF alive THEN @ + 1 ELSE @]

\* SessionManager.resize_terminal: no handle, no effect; an exception of
\* resize is logged and swallowed
Resize(cols, rows) ==
    /\ phase = "up"
    /\ IF pty = <<>> \/ pty[1].pid = NoPid
       THEN tty' = tty
       ELSE /\ tty[pty[1].pid].winch < MaxResizes
            /\ tty' = [tty EXCEPT ![pty[1].pid] =
                          [resize(@, pty[1].running,
                                  osProc[pty[1].pid] \in {"own", "deaf"}, cols, rows)
                              EXCEPT !.asked = IF pty[1].running THEN <<cols, rows>> ELSE @]]
    /\ UNCHANGED <<phase, disk, osProc, logVars, nextPid, session, pty, stopping, hubVars,
                   tunVars, gwVars, resp>>

\* The terminal child exits on its own
ChildExit ==
    /\ pty # <<>>
    /\ pty[1].running
    /\ osProc[pty[1].pid] = "own"
    /\ osProc' = [osProc EXCEPT ![pty[1].pid] = "none"]
    /\ tty' = tty
    /\ UNCHANGED logVars
    /\ UNCHANGED <<phase, disk, nextPid, session, pty, stopping, hubVars, tunVars,
                   gwVars, resp>>

\* PTYSession._read_output: os.read raises EIO once the child is gone
ReaderSeesExit ==
    /\ phase = "up"
    /\ pty # <<>>
    /\ pty[1].running
    /\ osProc[pty[1].pid] = "none"
    /\ pty' = <<[pty[1] EXCEPT !.running = FALSE]>>
    /\ UNCHANGED <<phase, disk, osProc, tty, logVars, nextPid, session, stopping, hubVars, tunVars,
                   gwVars, resp>>

\* what os.read on the master descriptor does, and what the output callback
\* does when it is called with the data read
ReadOutcomes == {"data", "EAGAIN", "EIO", "EBADF"}
CallbackOutcomes == {"returns", "raises", "raises_EIO"}

\* a loop whose handler of a read error looks at the read alone
_read_output_bad(read, cb) == read # "EIO"

\* PTYSession._read_output, one turn of the loop: whether the loop goes on.
\* The callback is awaited inside the try whose handler takes any OSError
\* with errno 5 for the child's exit.
_read_output(read, cb) ==
    CASE read = "EIO" -> FALSE
      [] read = "data" -> cb # "raises_EIO"
      [] OTHER -> TRUE

\* one turn of the read loop of a Running terminal nobody is stopping: EIO
\* comes once the slave side is closed, data and EAGAIN while it is open
ReadOutput(read, cb) ==
    /\ phase = "up"
    /\ pty # <<>> /\ pty[1].running
    /\ read = "EIO" <=> ~SlaveOpen(pty[1].pid)
    /\ read = "data" => tty[pty[1].pid].delivered < MaxChunks
    /\ pty' = <<[pty[1] EXCEPT !.running = _read_output(read, cb)]>>
    /\ tty' = [tty EXCEPT ![pty[1].pid].delivered = IF read = "data" THEN @ + 1 ELSE @]
    /\ UNCHANGED <<phase, disk, osProc, logVars, nextPid, session, stopping, hubVars, tunVars,
                   gwVars, resp>>

\* PTYSession(...) built by a caller other than the registry
PtyNew ==
    /\ phase = "up"
    /\ session = <<>> /\ pty = <<>>
    /\ pty' = <<[pid |-> NoPid, running |-> FALSE]>>
    /\ UNCHANGED <<phase, disk, osProc, tty, logVars, nextPid, session, stopping, hubVars, tunVars,
                   gwVars, resp>>

\* a start that asks for a terminal never started before
start_bad(p) == p.running \/ p.pid # NoPid

\* PTYSession.start, its test before the fork: TRUE when it raises
start(p) == p.running

\* PTYSession.start called on that object, with no stop of it under way
PtyStart(fork) ==
    /\ phase = "up"
    /\ session = <<>> /\ pty # <<>>
    /\ pty[1].pid \notin stopping
    /\ IF start(pty[1])
       THEN /\ resp' = Resp("start", "already_running")
            /\ UNCHANGED <<pty, osProc, tty, nextPid>>
       ELSE IF fork = "ok"
       THEN /\ nextPid <= MaxSessions + 1
            /\ pty' = <<[pid |-> nextPid, running |-> TRUE]>>
            /\ osProc' = [osProc EXCEPT ![nextPid] = "own"]
            /\ tty' = [tty EXCEPT ![nextPid] = _set_terminal_size(Forked, 80, 24)]
            /\ nextPid' = nextPid + 1
            /\ resp' = Resp("start", "ok")
       ELSE /\ resp' = Resp("start", "failed")
            /\ UNCHANGED <<pty, osProc, tty, nextPid>>
    /\ UNCHANGED <<phase, disk, logVars, session, stopping, hubVars, tunVars, gwVars>>

\* PTYSession.stop up to its first await: nothing when the terminal is not
\* running; else running is cleared, the reader cancelled, SIGTERM sent
PtyStop ==
    /\ phase = "up"
    /\ session = <<>> /\ pty # <<>>
    /\ pty[1].pid \notin stopping
    /\ IF ~pty[1].running
       THEN /\ resp' = Resp("stop", "returned")
            /\ UNCHANGED <<pty, stopping>>
       ELSE /\ pty' = <<[pty[1] EXCEPT !.running = FALSE]>>
            /\ stopping' = stopping \cup {pty[1].pid}
            /\ resp' = Resp("stop", "waiting")
    /\ UNCHANGED <<phase, disk, osProc, tty, logVars, nextPid, session, hubVars, tunVars, gwVars>>

\* os.waitpid returns, the descriptor is closed and stop() returns
PtyStopResume(pid) ==
    /\ phase = "up"
    /\ session = <<>> /\ pty # <<>>
    /\ pid \in stopping
    /\ osProc[pid] # "deaf"
    /\ stopping' = stopping \ {pid}
    /\ osProc' = [osProc EXCEPT ![pid] = "none"]
    /\ tty' = [tty EXCEPT ![pid].master_fd = "closed"]
    /\ resp' = Resp("stop", "returned")
    /\ UNCHANGED <<phase, disk, logVars, nextPid, session, pty, hubVars, tunVars, gwVars>>

\* ------------------------------------------------------------ tunnel actions
Tick ==
    /\ clock < MaxClock
    /\ clock' = clock + 1
    /\ UNCHANGED <<sessVars, hubVars, stratVars, facadeVars, autoVars, gwVars, resp>>

Call(owner, port, r) ==
    [owner |-> owner, port |-> port, ref |-> r.ref, proc |-> r.proc,
     sid |-> session[1].id]

\* model_dump_json of WSTunnelMessage(type=TUNNEL_CREATED, tunnel=tunnel)
TunnelCreated(t) == [type |-> "tunnel_created", tunnel |-> t]

\* a mark that forgets the ports marked before
MarkHandled_last(ports, port, res) == IF res = "ok" THEN {port} ELSE ports

\* a mark made whether or not the call succeeded
MarkHandled_bad(ports, port, res) == ports \cup {port}

\* "self._detected_ports.add(port)" stands after the awaited create_tunnel,
\* inside the try: an exception skips it
MarkHandled(ports, port, res) == IF res = "ok" THEN ports \cup {port} ELSE ports

\* What a finished create_tunnel call leaves with its caller: the REST route
\* answers, the orchestrator marks the port and emits the event
Finished(owner, port, r) ==
    /\ Commit(r.w)
    /\ IF owner = "rest"
       THEN /\ resp' = Resp("create_tunnel", r.res)
            /\ UNCHANGED <<detectedPorts, eventLog, queues>>
       ELSE /\ resp' = resp
            /\ detectedPorts' = MarkHandled(detectedPorts, port, r.res)
            /\ eventLog' = IF r.res = "ok" /\ autoSubscribers # {}
                           THEN Append(eventLog, TunnelCreated(r.w.tobj[r.ref]))
                           ELSE eventLog
            /\ queues' = IF r.res = "ok"
                         THEN PutNowaitAll(queues, autoSubscribers,
                                           TunnelCreated(r.w.tobj[r.ref]))
                         ELSE queues

\* HybridTunnelManager.create_tunnel run for a caller up to its return or its
\* first suspension
Create(owner, port, out) ==
    IF ~has_active_session
    THEN /\ resp' = IF owner = "rest" THEN Resp("create_tunnel", "no_session") ELSE resp
         /\ UNCHANGED <<stratVars, session, disk, detectedPorts, eventLog, queues, quickCalls>>
    ELSE LET r == FacadeCreate(CurW, port, clock, session[1].id, out)
         IN /\ r.new => Len(tobj) < MaxRefs
            /\ IF r.res = "wait"
               THEN /\ Cardinality(quickCalls) < MaxCalls
                    /\ quickCalls' = quickCalls \cup {Call(owner, port, r)}
                    /\ Commit(r.w)
                    /\ UNCHANGED <<resp, detectedPorts, eventLog, queues>>
               ELSE /\ Finished(owner, port, r)
                    /\ UNCHANGED quickCalls

\* POST /tunnels
CreateTunnel(port, out) ==
    /\ phase = "up"
    /\ Create("rest", port, out)
    /\ UNCHANGED <<regVars, outputSubscribers, producer, emitted, outputLog, clock, facadeVars,
                   readyTasks, createCalls, scans, scanVars, gwVars>>

\* The event loop runs the oldest orchestrator task: _on_server_ready or
\* _on_localhost_detected up to its return or first suspension
AutoTaskRun(out) ==
    /\ phase = "up"
    /\ readyTasks # <<>>
    /\ readyTasks' = Tail(readyTasks)
    /\ LET port == extract_port(Head(readyTasks).text)
       IN IF port = 0 \/ port \in detectedPorts
          THEN UNCHANGED <<stratVars, session, disk, detectedPorts, eventLog, queues, quickCalls,
                           createCalls, resp>>
          ELSE /\ createCalls' = [createCalls EXCEPT ![port] = @ + 1]
               /\ Create("auto", port, out)
    /\ UNCHANGED <<regVars, outputSubscribers, producer, emitted, outputLog, clock, facadeVars,
                   scans, scanVars, gwVars>>

ResumeOutcomes == {"url", "died", "timeout"}

\* _extract_tunnel_url wakes from its sleep and the call runs to its end
QuickResume(c, out) ==
    /\ phase = "up"
    /\ c \in quickCalls
    /\ quickCalls' = quickCalls \ {c}
    /\ LET w == CurW
           r == IF procs[c.proc] = "dead" \/ out = "timeout"
                THEN [w |-> QuickFail(w, c.ref), res |-> "error", ref |-> c.ref]
                ELSE IF out = "died"
                THEN [w |-> QuickFail(Exited(w, c.proc), c.ref), res |-> "error", ref |-> c.ref]
                ELSE [w |-> QuickSucceed(w, c.sid, c.ref), res |-> "ok", ref |-> c.ref]
       IN Finished(c.owner, c.port, r)
    /\ UNCHANGED <<regVars, outputSubscribers, producer, emitted, outputLog, clock, facadeVars,
                   readyTasks, createCalls, scans, scanVars, gwVars>>

\* _extract_tunnel_url wakes from its sleep with the tunnel client alive and
\* silent: "process.stderr.readline()" is a blocking read made on the event
\* loop's own thread, so no task runs until it returns
ReadlineBlocks(c) ==
    /\ phase = "up"
    /\ c \in quickCalls
    /\ procs[c.proc] = "alive"
    /\ phase' = "blocked"
    /\ UNCHANGED <<disk, osProc, tty, logVars, nextPid, session, pty, stopping, hubVars, tunVars,
                   gwVars, resp>>

\* the tunnel client prints a line at last, or closes its stderr: readline
\* returns and the loop runs again
ReadlineReturns ==
    /\ phase = "blocked"
    /\ phase' = "up"
    /\ UNCHANGED <<disk, osProc, tty, logVars, nextPid, session, pty, stopping, hubVars, tunVars,
                   gwVars, resp>>

\* the port whose Named tunnel carries the identifier, as the facade finds it
NamedPortsOf(id) ==
    SelectSeq(DictKeys(namedTunnels), LAMBDA p : tobj[DictGet(namedTunnels, p)].id = id)

\* DELETE /tunnels/{tunnel_id} -> HybridTunnelManager.destroy_tunnel
DestroyTunnel(id) ==
    /\ phase = "up"
    /\ IF isNamed
       THEN /\ Commit(IF NamedPortsOf(id) = <<>> THEN CurW
                      ELSE NamedRemove(CurW, Head(NamedPortsOf(id))))
            /\ resp' = Resp("destroy_tunnel", "ok")
       ELSE IF DictHas(quickTunnels, id)
       THEN /\ Commit(QuickDestroy(CurW, id))
            /\ resp' = Resp("destroy_tunnel", "ok")
       ELSE /\ Commit(CurW)
            /\ resp' = Resp("destroy_tunnel", "not_found")
    /\ UNCHANGED <<regVars, hubVars, clock, facadeVars, autoVars, gwVars>>

\* HybridTunnelManager.destroy_all_tunnels called on its own
DestroyAllTunnels(failing) ==
    /\ phase = "up"
    /\ LET r == FacadeDestroyAllOf(CurW, failing)
       IN /\ Commit(r.w)
          /\ resp' = Resp("destroy_all_tunnels", IF r.raised THEN "raised" ELSE "returned")
    /\ UNCHANGED <<regVars, hubVars, clock, facadeVars, autoVars, gwVars>>

\* TunnelManager.health_check: the answer and the status it leaves behind
health_check(w, id) ==
    IF ~DictHas(w.qt, id) THEN [w |-> w, res |-> "false"]
    ELSE IF DictHas(w.tp, id) /\ w.procs[DictGet(w.tp, id)] = "dead"
    THEN [w |-> [w EXCEPT !.tobj[DictGet(w.qt, id)].status = "error"], res |-> "false"]
    ELSE [w |-> w,
          res |-> IF w.tobj[DictGet(w.qt, id)].status = "active" THEN "true" ELSE "false"]

\* HybridTunnelManager.health_check. Under Named the facade is in use only
\* after _start_tunnel_process has stored int(pid) in _tunnel_process, so
\* "_tunnel_process.poll()" is an attribute lookup on an int
FacadeHealthCheck(w, id) ==
    IF isNamed THEN [w |-> w, res |-> "AttributeError"] ELSE health_check(w, id)

HealthCheck(id) ==
    /\ phase = "up"
    /\ Commit(FacadeHealthCheck(CurW, id).w)
    /\ resp' = Resp("health_check", FacadeHealthCheck(CurW, id).res)
    /\ UNCHANGED <<regVars, hubVars, clock, facadeVars, autoVars, gwVars>>

\* -------------------------------------------------------- Transport Gateway
TaskNames == {"receive_task", "send_pty_task", "send_tunnels_task", "send_logs_task"}

\* the token query parameter of a connection: absent, signed with another
\* secret, past its expiry, good
JwtTokens == {"", "forged", "expired", "valid"}

verify_jwt_token_bad(token) == token \in {"expired", "valid"}

\* jwt.decode with the server secret: ExpiredSignatureError and
\* InvalidTokenError both answer False
verify_jwt_token(token) == token = "valid"

\* websocket_terminal up to "await asyncio.wait": without a token that
\* verifies, close(1008) and return; else accept, three subscriptions, then
\* the four relay tasks
Connect(token) ==
    /\ phase = "up"
    /\ Len(conns) < MaxConns
    /\ IF token = "" \/ ~verify_jwt_token(token)
       THEN /\ resp' = Resp("websocket", "closed_1008")
            /\ UNCHANGED <<queues, outputSubscribers, gwVars>>
       ELSE
       LET n == Len(queues)
       IN /\ resp' = resp
          /\ queues' = queues \o <<NewQueue(OutputQueueMax), NewQueue(TunnelQueueMax),
                                   NewQueue(LogQueueMax)>>
          /\ outputSubscribers' = Append(outputSubscribers, n + 1)
          /\ autoSubscribers' = autoSubscribers \cup {n + 2}
          /\ logSubscribers' = logSubscribers \cup {n + 3}
          /\ conns' = Append(conns,
                 [pty_output_queue |-> n + 1, tunnel_queue |-> n + 2, log_queue |-> n + 3,
                  token |-> token,
                  waiting |-> TRUE, tasks |-> [t \in TaskNames |-> "running"]])
          /\ forwarded' = forwarded
    /\ UNCHANGED <<sessVars, producer, emitted, outputLog, tunVars>>

\* receive_messages, a binary frame: the text goes to send_input
ReceiveInput(c) ==
    /\ c \in 1..Len(conns)
    /\ conns[c].tasks["receive_task"] = "running"
    /\ SendInput

\* receive_messages, a pty_resize text frame
ReceiveResize(c, cols, rows) ==
    /\ c \in 1..Len(conns)
    /\ conns[c].tasks["receive_task"] = "running"
    /\ Resize(cols, rows)

\* the text frames a client can send: not JSON; JSON that is no object; an
\* object without "type"; one with a type the loop has no branch for; a
\* pty_resize without usable cols and rows; a well-formed pty_resize; a ping
TextFrames == {"not_json", "json_array", "no_type", "unknown_type", "resize_bad_fields",
               "resize", "ping"}

\* a loop whose json.loads is outside the try: the decode error ends the task
handle_text_bad(frame) ==
    CASE frame = "not_json" -> "raise"
      [] frame \in {"json_array", "resize_bad_fields"} -> "message_processing_error"
      [] frame = "resize" -> "resize"
      [] frame = "ping" -> "pong"
      [] OTHER -> "nothing"

\* receive_messages, the "text" branch: what the frame leads to
handle_text(frame) ==
    CASE frame = "not_json" -> "invalid_json_received"
      [] frame \in {"json_array", "resize_bad_fields"} -> "message_processing_error"
      [] frame = "resize" -> "resize"
      [] frame = "ping" -> "pong"
      [] OTHER -> "nothing"

\* receive_messages taking one text frame
ReceiveText(c, frame) ==
    /\ c \in 1..Len(conns)
    /\ conns[c].tasks["receive_task"] = "running"
    /\ IF handle_text(frame) = "resize"
       THEN Resize(100, 40)
       ELSE /\ phase = "up"
            /\ resp' = Resp("text_frame", handle_text(frame))
            /\ conns' = IF handle_text(frame) = "raise"
                        THEN [conns EXCEPT ![c].tasks["receive_task"] = "done"]
                        ELSE conns
            /\ UNCHANGED <<sessVars, hubVars, tunVars, autoSubscribers, logSubscribers,
                           forwarded>>

\* send_pty_output: one chunk taken from the queue, decoded, scanned, sent
RelayPty(c) ==
    /\ phase = "up"
    /\ c \in 1..Len(conns)
    /\ conns[c].tasks["send_pty_task"] = "running"
    /\ queues[conns[c].pty_output_queue].items # <<>>
    /\ queues' = [queues EXCEPT ![conns[c].pty_output_queue].items = Tail(@)]
    /\ readyTasks' = readyTasks \o
          NewTasks(b64decode(Head(queues[conns[c].pty_output_queue].items)).line)
    /\ forwarded' = [forwarded EXCEPT ![conns[c].pty_output_queue] =
                        Append(@, Head(queues[conns[c].pty_output_queue].items))]
    /\ UNCHANGED <<sessVars, outputSubscribers, producer, emitted, outputLog, clock, stratVars,
                   facadeVars, detectedPorts, eventLog, quickCalls, createCalls, scans, scanVars,
                   autoSubscribers, logSubscribers, conns, resp>>

\* The relay task of each queue-fed stream, by the connection field of its queue
QueueTasks == [tunnel_queue |-> "send_tunnels_task", log_queue |-> "send_logs_task"]

\* send_queue_messages: one message taken from the queue and sent as text
RelayQueue(c, qname) ==
    /\ phase = "up"
    /\ c \in 1..Len(conns)
    /\ conns[c].tasks[QueueTasks[qname]] = "running"
    /\ queues[conns[c][qname]].items # <<>>
    /\ queues' = [queues EXCEPT ![conns[c][qname]].items = Tail(@)]
    /\ forwarded' = [forwarded EXCEPT ![conns[c][qname]] =
                        Append(@, Head(queues[conns[c][qname]].items))]
    /\ UNCHANGED <<sessVars, outputSubscribers, producer, emitted, outputLog, tunVars,
                   autoSubscribers, logSubscribers, conns, resp>>

\* One relay task ends: the client disconnects, a send raises, a loop breaks
TaskEnds(c, t) ==
    /\ phase = "up"
    /\ c \in 1..Len(conns)
    /\ conns[c].tasks[t] = "running"
    /\ conns' = [conns EXCEPT ![c].tasks[t] = "done"]
    /\ UNCHANGED <<sessVars, hubVars, tunVars, autoSubscribers, logSubscribers, forwarded, resp>>

\* asyncio.wait(FIRST_COMPLETED) returns: the pending tasks are cancelled and
\* the finally block drops the three subscriptions
WaitReturns(c) ==
    /\ phase = "up"
    /\ c \in 1..Len(conns)
    /\ conns[c].waiting
    /\ \E t \in TaskNames : conns[c].tasks[t] = "done"
    /\ conns' = [conns EXCEPT
                   ![c].waiting = FALSE,
                   ![c].tasks = [t \in TaskNames |->
                                   IF @[t] = "running" THEN "cancelling" ELSE @[t]]]
    /\ outputSubscribers' = unsubscribe_output(outputSubscribers, conns[c].pty_output_queue)
    /\ autoSubscribers' = autoSubscribers \ {conns[c].tunnel_queue}
    /\ logSubscribers' = logSubscribers \ {conns[c].log_queue}
    /\ UNCHANGED <<sessVars, queues, producer, emitted, outputLog, tunVars, forwarded, resp>>

\* CancelledError reaches a cancelled task at its await and it ends
CancelDelivered(c, t) ==
    /\ phase = "up"
    /\ c \in 1..Len(conns)
    /\ conns[c].tasks[t] = "cancelling"
    /\ conns' = [conns EXCEPT ![c].tasks[t] = "done"]
    /\ UNCHANGED <<sessVars, hubVars, tunVars, autoSubscribers, logSubscribers, forwarded, resp>>

\* every queue the hub and the gateway can hand out
QueueIds == 1..(3 * MaxConns + MaxQueues)

\* ------------------------------------------------------------------ Init
NoTunnels == <<>>
OneTunnel == <<Tunnel(TunnelId(3000, 0), 1, 3000, "url", "active", 1)>>

PersistedRecords ==
    { [id |-> 1, pty_pid |-> NoPid, status |-> "running", tunnels |-> NoTunnels,
       last_activity |-> 0],
      [id |-> 1, pty_pid |-> 1, status |-> "running", tunnels |-> NoTunnels,
       last_activity |-> 0],
      [id |-> 1, pty_pid |-> 1, status |-> "running", tunnels |-> OneTunnel,
       last_activity |-> 0] }

\* the fields every start of the process sets the same way
InitialFields ==
    /\ disk \in {<<>>} \cup { <<r>> : r \in PersistedRecords }
    /\ osProc \in { [p \in Pids |-> IF p = 1 THEN st ELSE "none"] :
                      st \in {"none", "own", "foreign"} }
    /\ nextPid = 2
    /\ tty = [p \in Pids |-> NoTty]
    /\ log_buffer = <<>>
    /\ command_count = 0
    /\ logged = <<>>
    /\ session = <<>>
    /\ pty = <<>>
    /\ stopping = {}
    /\ producer = <<>>
    /\ emitted = 0
    /\ outputLog = <<>>
    /\ clock = 0
    /\ tobj = <<>>
    /\ isNamed \in BOOLEAN
    /\ namedFailed = FALSE
    /\ quickTunnels = <<>>
    /\ tunnelProcesses = <<>>
    /\ procs = <<>>
    /\ namedTunnels = <<>>
    /\ ingress = <<>>
    /\ detectedPorts = {}
    /\ eventLog = <<>>
    /\ readyTasks = <<>>
    /\ quickCalls = {}
    /\ createCalls = [p \in Ports |-> 0]
    /\ scans = 0
    /\ extracted = <<>>
    /\ callbacks = [n \in {"localhost_server", "server_ready", "listening_on_port"} |-> <<>>]
    /\ invoked = <<>>
    /\ matches = <<>>
    /\ forwarded = [q \in QueueIds |-> <<>>]

Init ==
    /\ InitialFields
    /\ phase = "boot"
    /\ outputSubscribers = <<>>
    /\ queues = <<>>
    /\ autoSubscribers = {}
    /\ logSubscribers = {}
    /\ conns = <<>>
    /\ resp = Resp("none", "none")

\* ---------------------------------------------------------- specifications
StartupNext == \E out \in InitOutcomes : Startup(out)

SessionNext ==
    \/ StartupNext
    \/ \E fork \in {"ok", "fail"} : CreateSession(fork)
    \/ DestroySession
    \/ \E pid \in Pids : DestroyResume(pid)
    \/ ChildExit
    \/ ReaderSeesExit

SpecSession == Init /\ [][SessionNext]_vars

\* stopping the terminal: the child either exits on SIGTERM or stays
StopNext ==
    \/ StartupNext
    \/ \E fork \in {"ok", "fail"} : CreateSession(fork)
    \/ DestroySession
    \/ \E pid \in Pids : TermIgnored(pid)
    \/ \E pid \in Pids : DestroyResume(pid)
    \/ ChildExit
    \/ ReaderSeesExit

\* the executor thread's waitpid returns, and stop() resumes, whenever the
\* child has exited
StopFairness == \A pid \in Pids : WF_vars(DestroyResume(pid))

SpecStop == Init /\ [][StopNext]_vars /\ StopFairness

\* a start with nothing persisted and the Quick strategy configured
FreshInit == Init /\ disk = <<>> /\ osProc[1] = "none" /\ ~isNamed

\* what the terminal prints is opaque to the hub: one port-revealing line
\* and one plain line
HubLines == { <<Word("srv"), Word("run"), Lh(3000)>>, <<Word("txt")>> }

HubNext ==
    \/ StartupNext
    \/ CreateSession("ok")
    \/ DestroySession
    \/ \E pid \in Pids : DestroyResume(pid)
    \/ SubscribeOutput
    \/ \E q \in 1..MaxQueues : UnsubscribeOutput(q)
    \/ \E line \in HubLines : HandlePtyOutput(line)
    \/ \E q \in 1..MaxQueues : QueueGet(q)

SpecHub == FreshInit /\ [][HubNext]_vars

\* the ports and tunnel identifiers REST clients ask for
RestPorts == {3000}
RestTunnelIds == { TunnelId(p, t) : p \in RestPorts, t \in 0..MaxClock }

TunnelNext ==
    \/ StartupNext
    \/ CreateSession("ok")
    \/ DestroySession
    \/ \E pid \in Pids : DestroyResume(pid)
    \/ Tick
    \/ \E port \in RestPorts, out \in Outcomes : CreateTunnel(port, out)
    \/ \E c \in quickCalls, out \in ResumeOutcomes : QuickResume(c, out)
    \/ \E id \in RestTunnelIds : DestroyTunnel(id)

SpecTunnel == Init /\ [][TunnelNext]_vars

AutoNext ==
    \/ StartupNext
    \/ CreateSession("ok")
    \/ \E line \in Lines : DetectPatterns(line)
    \/ \E out \in Outcomes : AutoTaskRun(out)
    \/ \E c \in quickCalls, out \in ResumeOutcomes : QuickResume(c, out)

SpecAuto == Init /\ [][AutoNext]_vars

ReinitNext ==
    \/ StartupNext
    \/ \E out \in InitOutcomes : FacadeInitialize(out)
    \/ \E fails \in InitSteps : NamedInitialize(fails)
    \/ CreateSession("ok")
    \/ \E port \in RestPorts, out \in Outcomes : CreateTunnel(port, out)
    \/ \E c \in quickCalls, out \in ResumeOutcomes : QuickResume(c, out)

SpecReinit == Init /\ [][ReinitNext]_vars

\* resizing the terminal through its life
ResizeNext ==
    \/ StartupNext
    \/ \E fork \in {"ok", "fail"} : CreateSession(fork)
    \/ \E cols \in ResizeValues, rows \in ResizeValues : Resize(cols, rows)
    \/ DestroySession
    \/ \E pid \in Pids : DestroyResume(pid)
    \/ ChildExit
    \/ ReaderSeesExit

SpecResize == FreshInit /\ [][ResizeNext]_vars

\* the registry's mutating calls as time passes
PersistNext ==
    \/ StartupNext
    \/ CreateSession("ok")
    \/ Tick
    \/ SendCommand
    \/ SendInput
    \/ \E port \in RestPorts, out \in Outcomes : CreateTunnel(port, out)
    \/ \E c \in quickCalls, out \in ResumeOutcomes : QuickResume(c, out)
    \/ \E id \in RestTunnelIds : DestroyTunnel(id)
    \/ DestroySession
    \/ \E pid \in Pids : DestroyResume(pid)

SpecPersist == FreshInit /\ [][PersistNext]_vars

\* the port-extraction helper asked about every line
ExtractNext ==
    \/ StartupNext
    \/ \E line \in ScanLines : ExtractPort(line)

SpecExtract == FreshInit /\ [][ExtractNext]_vars

\* handlers registered, lines scanned
ScanNext ==
    \/ StartupNext
    \/ \E name \in DOMAIN callbacks, h \in Handlers : RegisterCallback(name, h)
    \/ \E line \in Lines, raising \in SUBSET Handlers : Scan(line, raising)

SpecScan == FreshInit /\ [][ScanNext]_vars

\* a Quick create_tunnel waiting for the public URL beside the terminal reader
WaitNext ==
    \/ StartupNext
    \/ CreateSession("ok")
    \/ Tick
    \/ \E line \in HubLines : HandlePtyOutput(line)
    \/ SubscribeOutput
    \/ \E port \in Ports, out \in Outcomes : CreateTunnel(port, out)
    \/ \E c \in quickCalls, out \in ResumeOutcomes : QuickResume(c, out)
    \/ \E c \in quickCalls : ReadlineBlocks(c)
    \/ ReadlineReturns

\* asyncio.sleep(0.1) always returns: the loop resumes the waiting call
WaitFairness == WF_vars(\E c \in quickCalls, out \in ResumeOutcomes : QuickResume(c, out))

SpecWait == FreshInit /\ [][WaitNext]_vars /\ WaitFairness

\* the lines the terminal prints while clients are connected
RelayLines == { <<Word("srv"), Word("run"), Lh(3000)>>, <<Word("txt"), Word("run"), PortWord(8080)>> }

\* LogMonitor._monitor_loop only sleeps: _broadcast_log is never called
LogEmissions == <<>>

RelayNext ==
    \/ StartupNext
    \/ CreateSession("ok")
    \/ \E token \in JwtTokens : Connect(token)
    \/ \E line \in RelayLines : HandlePtyOutput(line)
    \/ \E c \in 1..MaxConns : RelayPty(c)
    \/ \E c \in 1..MaxConns, qname \in DOMAIN QueueTasks : RelayQueue(c, qname)
    \/ \E out \in Outcomes : AutoTaskRun(out)
    \/ \E c \in quickCalls, out \in ResumeOutcomes : QuickResume(c, out)

SpecRelay == FreshInit /\ [][RelayNext]_vars

GatewayNext ==
    \/ StartupNext
    \/ CreateSession("ok")
    \/ DestroySession
    \/ \E pid \in Pids : DestroyResume(pid)
    \/ \E token \in JwtTokens : Connect(token)
    \/ \E c \in 1..MaxConns, t \in TaskNames : TaskEnds(c, t)
    \/ \E c \in 1..MaxConns : WaitReturns(c)
    \/ \E c \in 1..MaxConns, t \in TaskNames : CancelDelivered(c, t)

\* The event loop wakes the handler once a task it waits for is done, and
\* runs every cancelled task to its end
GatewayFairness ==
    /\ \A c \in 1..MaxConns : WF_vars(WaitReturns(c))
    /\ \A c \in 1..MaxConns, t \in TaskNames : WF_vars(CancelDelivered(c, t))

SpecGateway == FreshInit /\ [][GatewayNext]_vars /\ GatewayFairness

\* viewers that stay connected while sessions come and go
ViewerNext ==
    \/ StartupNext
    \/ CreateSession("ok")
    \/ DestroySession
    \/ \E pid \in Pids : DestroyResume(pid)
    \/ \E token \in {"valid"} : Connect(token)
    \/ \E line \in HubLines : HandlePtyOutput(line)
    \/ \E c \in 1..MaxConns : RelayPty(c)
    \/ \E c \in 1..MaxConns : TaskEnds(c, "receive_task")
    \/ \E c \in 1..MaxConns : WaitReturns(c)
    \/ SendCommand
    \/ \E content \in {"out"} : AddLogEntry(content)

SpecViewer == FreshInit /\ [][ViewerNext]_vars

\* either strategy holding up to two tunnels when all are destroyed at once
EitherInit == Init /\ disk = <<>> /\ osProc[1] = "none"

SweepNext ==
    \/ StartupNext
    \/ CreateSession("ok")
    \/ Tick
    \/ \E port \in Ports, out \in Outcomes : CreateTunnel(port, out)
    \/ \E c \in quickCalls, out \in ResumeOutcomes : QuickResume(c, out)
    \/ \E failing \in SUBSET Ports : DestroyAllTunnels(failing)

SpecSweep == EitherInit /\ [][SweepNext]_vars

\* events of earlier tunnels, on ports no line names any more, that a viewer
\* has not read yet
Backlog(n) ==
    [i \in 1..n |-> TunnelCreated(Tunnel(TunnelId(0, 0), 0, 0, "url", "active", NoPid))]

\* the server some time after startup, Quick strategy: two viewers are
\* connected and each has left none, all but one, or all of the
\* TunnelQueueMax places of its event queue unread
EventsInit ==
    /\ InitialFields
    /\ disk = <<>> /\ osProc[1] = "none" /\ ~isNamed
    /\ phase = "up"
    /\ resp = Resp("startup", "ok")
    /\ \E b1 \in {TunnelQueueMax}, b2 \in {0, TunnelQueueMax - 1, TunnelQueueMax} :
          queues = <<NewQueue(OutputQueueMax),
                     [NewQueue(TunnelQueueMax) EXCEPT !.items = Backlog(b1)],
                     NewQueue(LogQueueMax),
                     NewQueue(OutputQueueMax),
                     [NewQueue(TunnelQueueMax) EXCEPT !.items = Backlog(b2)],
                     NewQueue(LogQueueMax)>>
    /\ outputSubscribers = <<1, 4>>
    /\ autoSubscribers = {2, 5}
    /\ logSubscribers = {3, 6}
    /\ conns = [c \in 1..2 |->
                 [pty_output_queue |-> 3 * c - 2, tunnel_queue |-> 3 * c - 1,
                  log_queue |-> 3 * c, token |-> "valid", waiting |-> TRUE,
                  tasks |-> [t \in TaskNames |-> "running"]]]

EventsNext ==
    \/ CreateSession("ok")
    \/ \E line \in RelayLines : HandlePtyOutput(line)
    \/ \E c \in 1..MaxConns : RelayPty(c)
    \/ \E out \in Outcomes : AutoTaskRun(out)
    \/ \E c \in quickCalls, out \in ResumeOutcomes : QuickResume(c, out)

SpecEvents == EventsInit /\ [][EventsNext]_vars

\* viewers sending text frames of every kind
FramesNext ==
    \/ StartupNext
    \/ CreateSession("ok")
    \/ \E token \in {"valid"} : Connect(token)
    \/ \E c \in 1..MaxConns, frame \in TextFrames : ReceiveText(c, frame)
    \/ \E c \in 1..MaxConns : ReceiveInput(c)
    \/ \E c \in 1..MaxConns : TaskEnds(c, "receive_task")
    \/ \E c \in 1..MaxConns : WaitReturns(c)

SpecFrames == FreshInit /\ [][FramesNext]_vars

\* tunnels of either strategy asked for their health
HealthNext ==
    \/ StartupNext
    \/ CreateSession("ok")
    \/ Tick
    \/ \E port \in RestPorts, out \in Outcomes : CreateTunnel(port, out)
    \/ \E c \in quickCalls, out \in ResumeOutcomes : QuickResume(c, out)
    \/ \E id \in RestTunnelIds : DestroyTunnel(id)
    \/ \E id \in RestTunnelIds : HealthCheck(id)

SpecHealth == EitherInit /\ [][HealthNext]_vars

\* REST clients and the Orchestrator asking for tunnels before, during and
\* after sessions, under either strategy and from any record a previous run
\* left
NoSessionNext ==
    \/ StartupNext
    \/ CreateSession("ok")
    \/ DestroySession
    \/ \E pid \in Pids : DestroyResume(pid)
    \/ \E line \in {<<Word("txt"), Word("run"), PortWord(8080)>>} : DetectPatterns(line)
    \/ \E out \in Outcomes \ {"wait"} : AutoTaskRun(out)
    \/ \E port \in RestPorts, out \in Outcomes \ {"wait"} : CreateTunnel(port, out)

SpecNoSession == Init /\ [][NoSessionNext]_vars

\* callers logging lines before, during and after sessions
LogNext ==
    \/ StartupNext
    \/ \E fork \in {"ok", "fail"} : CreateSession(fork)
    \/ DestroySession
    \/ \E pid \in Pids : DestroyResume(pid)
    \/ \E content \in LogContents : AddLogEntry(content)

SpecLog == Init /\ [][LogNext]_vars

\* the registry's calls over the life of a terminal child, from any record
\* a previous run left
LifeNext ==
    \/ StartupNext
    \/ \E fork \in {"ok", "fail"} : CreateSession(fork)
    \/ GetInfo
    \/ SendCommand
    \/ SendInput
    \/ Tick
    \/ DestroySession
    \/ \E pid \in Pids : DestroyResume(pid)
    \/ ChildExit
    \/ ReaderSeesExit

SpecLife == Init /\ [][LifeNext]_vars

NamedTunnelIds == { TunnelId(p, t) : p \in Ports, t \in 0..MaxClock }

\* detection going on while tunnels and sessions are destroyed and made anew
HandledNext ==
    \/ StartupNext
    \/ CreateSession("ok")
    \/ DestroySession
    \/ \E pid \in Pids : DestroyResume(pid)
    \/ \E line \in Lines : DetectPatterns(line)
    \/ \E out \in Outcomes : AutoTaskRun(out)
    \/ \E c \in quickCalls, out \in ResumeOutcomes : QuickResume(c, out)
    \/ \E id \in NamedTunnelIds : DestroyTunnel(id)

SpecHandled == FreshInit /\ [][HandledNext]_vars

\* the Named strategy configured, nothing persisted, both ports in use
NamedInit == Init /\ disk = <<>> /\ osProc[1] = "none" /\ isNamed

NamedNext ==
    \/ StartupNext
    \/ CreateSession("ok")
    \/ DestroySession
    \/ \E pid \in Pids : DestroyResume(pid)
    \/ Tick
    \/ \E port \in Ports, out \in Outcomes : CreateTunnel(port, out)
    \/ \E id \in NamedTunnelIds : DestroyTunnel(id)

SpecNamed == NamedInit /\ [][NamedNext]_vars

\* a terminal object driven directly: built, started, read from, stopped
TerminalNext ==
    \/ StartupNext
    \/ PtyNew
    \/ \E fork \in {"ok", "fail"} : PtyStart(fork)
    \/ \E read \in ReadOutcomes, cb \in CallbackOutcomes : ReadOutput(read, cb)
    \/ ChildExit
    \/ PtyStop
    \/ \E pid \in Pids : TermIgnored(pid)
    \/ \E pid \in Pids : PtyStopResume(pid)

SpecTerminal == FreshInit /\ [][TerminalNext]_vars

AuthNext ==
    \/ StartupNext
    \/ CreateSession("ok")
    \/ \E token \in JwtTokens : Connect(token)
    \/ \E c \in 1..MaxConns : ReceiveInput(c)
    \/ \E c \in 1..MaxConns, cols \in ResizeValues, rows \in ResizeValues :
          ReceiveResize(c, cols, rows)
    \/ \E c \in 1..MaxConns, t \in TaskNames : TaskEnds(c, t)
    \/ \E c \in 1..MaxConns : WaitReturns(c)

SpecAuth == FreshInit /\ [][AuthNext]_vars

\* every action of the model
Next ==
    \/ SessionNext
    \/ HubNext
    \/ TunnelNext
    \/ AutoNext
    \/ ReinitNext
    \/ GatewayNext
    \/ \E c \in 1..MaxConns : RelayPty(c)
    \/ SendCommand
    \/ \E cols \in ResizeValues, rows \in ResizeValues : Resize(cols, rows)
    \/ SendInput
    \/ GetInfo
    \/ PtyNew
    \/ \E fork \in {"ok", "fail"} : PtyStart(fork)
    \/ \E read \in ReadOutcomes, cb \in CallbackOutcomes : ReadOutput(read, cb)
    \/ PtyStop
    \/ \E pid \in Pids : PtyStopResume(pid)
    \/ \E c \in 1..MaxConns : ReceiveInput(c)
    \/ \E c \in 1..MaxConns, cols \in ResizeValues, rows \in ResizeValues :
          ReceiveResize(c, cols, rows)
    \/ ExtractNext
    \/ ScanNext
    \/ \E c \in quickCalls : ReadlineBlocks(c)
    \/ ReadlineReturns
    \/ \E pid \in Pids : TermIgnored(pid)
    \/ \E c \in 1..MaxConns, qname \in DOMAIN QueueTasks : RelayQueue(c, qname)
    \/ \E content \in LogContents : AddLogEntry(content)
    \/ \E failing \in SUBSET Ports : DestroyAllTunnels(failing)
    \/ \E c \in 1..MaxConns, frame \in TextFrames : ReceiveText(c, frame)
    \/ \E id \in RestTunnelIds : HealthCheck(id)

Spec == Init /\ [][Next]_vars

\* ------------------------------------------------------------------ claims
Running(s) == s # <<>> /\ s[1].status = "running"
CreateSessionStep == \E fork \in {"ok", "fail"} : CreateSession(fork)

StartupStep == phase = "boot" /\ phase' = "up" /\ disk # <<>>
RecordedPidAlive == disk[1].pty_pid # NoPid /\ osProc[disk[1].pty_pid] # "none"
RecordedPidSignalable == disk[1].pty_pid # NoPid /\ osProc[disk[1].pty_pid] = "own"

\* C8 as stated: at startup a record whose pid is not alive (or absent) gives
\* no session and a discarded record; a record whose pid is alive gives a
\* Session with status Running.
C8_RestoreByLiveness ==
    [][StartupStep =>
         IF RecordedPidAlive
         THEN Running(session') /\ pty' = <<>>
         ELSE session' = <<>> /\ disk' = <<>>]_vars

\* C8 amended: at startup a record whose pid is absent, or whose liveness
\* probe fails (no such process, or a process the server may not signal),
\* gives no session and a discarded record; a record whose probe succeeds
\* gives a Session with status Running and the record kept.
C8_RestoreByProbe ==
    [][StartupStep =>
         IF RecordedPidSignalable
         THEN Running(session') /\ session'[1].id = disk[1].id /\ disk' = disk
         ELSE session' = <<>> /\ disk' = <<>>]_vars

C8_Witness ==
    /\ resp = Resp("startup", "ok")
    /\ Running(session)
    /\ disk # <<>>
    /\ pty = <<>>

\* C2: a broadcast chunk is appended to exactly the queues subscribed when
\* the broadcast is made, to no other queue, and the producer is not left
\* waiting, whatever any queue already holds.
C2_BroadcastExactlySubscribed ==
    [][emitted' = emitted + 1 =>
         \E line \in Lines :
            LET chunk == [b64 |-> [seq |-> emitted', line |-> line]]
                subs == SeqToSet(outputSubscribers)
            IN /\ producer' = <<>>
               /\ Len(queues') = Len(queues)
               /\ \A q \in 1..Len(queues) :
                     queues'[q].items =
                        IF q \in subs THEN Append(queues[q].items, chunk)
                        ELSE queues[q].items]_vars

\* a viewer that never reads next to one that has read everything, and a
\* queue that is no longer subscribed and got only the first chunk
C2_Witness ==
    /\ emitted = MaxChunks
    /\ \E q1, q2 \in 1..Len(queues) :
          /\ q1 \in SeqToSet(outputSubscribers)
          /\ Len(queues[q1].items) = MaxChunks
          /\ q2 \notin SeqToSet(outputSubscribers)
          /\ Len(queues[q2].items) = 1

\* C10: every queue subscribe_output hands out has a finite capacity that the
\* number of buffered chunks never exceeds.
C10_OutputQueuesBounded ==
    \A i \in 1..Len(outputSubscribers) :
        LET q == queues[outputSubscribers[i]]
        IN q.maxsize > 0 /\ Len(q.items) <= q.maxsize

\* C3: within one orchestrator lifetime at most one createTunnel call is
\* issued to the facade per port, whatever lines are scanned and however
\* the tasks they start interleave.
C3_AtMostOneCallPerPort == \A p \in Ports : createCalls[p] <= 1

\* The Active tunnels for a session and a port among a list of references
ActiveFor(refs, sid, port) ==
    { i \in 1..Len(refs) : /\ tobj[refs[i]].session_id = sid
                           /\ tobj[refs[i]].port = port
                           /\ tobj[refs[i]].status = "active" }

\* C4: for each session and each port at most one tunnel is Active, in the
\* active strategy's tunnel map and in Session.tunnels, overlapping
\* createTunnel calls included.
C4_OneActivePerSessionPort ==
    \A sid \in Pids, p \in Ports :
        /\ Cardinality(ActiveFor(StrategyRefs, sid, p)) <= 1
        /\ session # <<>> => Cardinality(ActiveFor(session[1].tunnels, sid, p)) <= 1

Quiescent == phase = "up" /\ quickCalls = {} /\ stopping = {}
SessionTunnelSet ==
    IF session = <<>> THEN {} ELSE { tobj[r] : r \in SeqToSet(session[1].tunnels) }
StrategyTunnelSet ==
    IF session = <<>> THEN {}
    ELSE { tobj[r] : r \in { x \in SeqToSet(StrategyRefs) :
                               tobj[x].session_id = session[1].id } }

\* C5: once every operation begun has completed, the tunnels in
\* Session.tunnels are the tunnels the active strategy holds for that session.
C5_SessionMirrorsStrategy == Quiescent => SessionTunnelSet = StrategyTunnelSet

\* C6: once Named initialize() has failed the facade stays on Quick: no step,
\* a further initialize() included, selects Named again, and no createTunnel
\* call reaches the Named strategy's map or its ingress rules.
C6_QuickAfterNamedFailure ==
    [][namedFailed =>
         /\ namedFailed'
         /\ ~isNamed'
         /\ namedTunnels' = namedTunnels
         /\ ingress' = ingress]_vars

\* Named initialize() failed, Quick made a tunnel, and initialize() was
\* called once more
C6_Witness ==
    /\ namedFailed
    /\ ~isNamed
    /\ resp = Resp("initialize", "true")
    /\ \E i \in 1..Len(quickTunnels) : tobj[quickTunnels[i].v].status = "active"

Ended(c) == c \in 1..Len(conns) /\ \E t \in TaskNames : conns[c].tasks[t] = "done"
Closed(c) ==
    /\ c \in 1..Len(conns)
    /\ ~conns[c].waiting
    /\ \A t \in TaskNames : conns[c].tasks[t] = "done"
NoResidue(c) ==
    /\ conns[c].pty_output_queue \notin SeqToSet(outputSubscribers)
    /\ conns[c].tunnel_queue \notin autoSubscribers
    /\ conns[c].log_queue \notin logSubscribers

\* C7: for every accepted connection, once one of its four relay tasks has
\* ended the other three come to an end too and the connection's queues
\* leave the output hub, the orchestrator's subscribers and the log
\* subscribers; a closed connection keeps no subscription.
C7_NoResidualSubscriptions ==
    \A c \in 1..MaxConns :
        /\ [](c \in 1..Len(conns) /\ ~conns[c].waiting => NoResidue(c))
        /\ Ended(c) ~> (Closed(c) /\ NoResidue(c))

\* one connection closed and every task of it ended, next to a second one
\* that is still open and still subscribed
C7_Witness ==
    /\ Len(conns) = 2
    /\ Closed(1)
    /\ NoResidue(1)
    /\ conns[2].waiting
    /\ conns[2].pty_output_queue \in SeqToSet(outputSubscribers)
    /\ conns[2].tunnel_queue \in autoSubscribers
    /\ conns[2].log_queue \in logSubscribers

RulesFor(rules, port) == Len(SelectSeq(rules, LAMBDA r : r = PortRule(port)))
EntriesFor(s, port) ==
    IF s = <<>> THEN 0
    ELSE Len(SelectSeq(s[1].tunnels, LAMBDA r : tobj[r].port = port))

\* C9: a Named addPortMapping for a port that is already mapped returns the
\* Tunnel the first call made, and leaves exactly one ingress rule and
\* exactly one Session.tunnels entry for the port.
C9_AddTwiceSameTunnel ==
    [][\A port \in RestPorts :
          ( /\ isNamed /\ has_active_session /\ DictHas(namedTunnels, port)
            /\ \E out \in NamedOutcomes : CreateTunnel(port, out) )
          => /\ resp' = Resp("create_tunnel", "ok")
             /\ namedTunnels' = namedTunnels
             /\ tobj' = tobj
             /\ RulesFor(ingress', port) = 1
             /\ EntriesFor(session', port) = 1]_vars

\* ---- C11
RECURSIVE IsSubseq(_, _)
IsSubseq(s, t) ==
    IF s = <<>> THEN TRUE
    ELSE IF t = <<>> THEN FALSE
    ELSE IF Head(s) = Head(t) THEN IsSubseq(Tail(s), Tail(t))
    ELSE IsSubseq(s, Tail(t))

\* what the consumer of queue q has been sent, followed by what still waits
Seen(q) == forwarded[q] \o queues[q].items

\* C11: on every connection, the messages a relay task has taken from its
\* queue, followed by the messages still on the queue, form a subsequence of
\* what the queue's producer emitted, in the producer's order: nothing is
\* reordered and nothing appears twice.
C11_ConsumersSeeEmissionOrder ==
    \A c \in 1..Len(conns) :
        /\ IsSubseq(Seen(conns[c].pty_output_queue), outputLog)
        /\ IsSubseq(Seen(conns[c].tunnel_queue), eventLog)
        /\ IsSubseq(Seen(conns[c].log_queue), LogEmissions)

\* two chunks and a tunnel event have reached one client
C11_Witness ==
    \E c \in 1..Len(conns) :
        /\ Len(forwarded[conns[c].pty_output_queue]) = 2
        /\ forwarded[conns[c].pty_output_queue] = outputLog
        /\ forwarded[conns[c].tunnel_queue] # <<>>

\* ---- C12
\* POST /tunnels for one port, whatever the tunnel client then does
CreateTunnelStep(port) == \E out \in Outcomes : CreateTunnel(port, out)

\* C12: when the Quick strategy holds an Active tunnel for port p, a
\* createTunnel(p) call succeeds with that tunnel, spawns no tunnel-client
\* process and leaves the tunnel map, the process table and Session.tunnels
\* as they were.
C12_ExistingActiveReturned ==
    [][\A port \in RestPorts :
          (~isNamed /\ ActiveOnPort(CurW, port) # <<>> /\ CreateTunnelStep(port))
          => /\ resp' = Resp("create_tunnel", "ok")
             /\ UNCHANGED <<tobj, quickTunnels, tunnelProcesses, procs, session>>]_vars

\* ---- C13
\* the event loop runs one orchestrator task
AutoTaskStep == \E out \in Outcomes : AutoTaskRun(out)

\* a create_tunnel call ends in TunnelError in this step
CreateFails ==
    \E r \in 1..Len(tobj') :
        /\ tobj'[r].status = "error"
        /\ r \in 1..Len(tobj) => tobj[r].status # "error"

\* a Tunnel for the port has been brought to Active: a call for it succeeded
HoldsActive(port) ==
    \E r \in 1..Len(tobj) : tobj[r].port = port /\ tobj[r].status = "active"

\* C13: a port enters the handled-port set only in a step that leaves an
\* Active tunnel for it, after a createTunnel call for it;
\* a step in which createTunnel fails leaves the set and the subscriber queues
\* as they were and emits no event; and a task for a port outside the set
\* always calls createTunnel again.
C13_MarkOnlyOnSuccess ==
    [][/\ \A port \in detectedPorts' \ detectedPorts :
              HoldsActive(port)' /\ createCalls'[port] >= 1
       /\ CreateFails =>
              UNCHANGED <<detectedPorts, eventLog, queues, autoSubscribers>>
       /\ \A port \in Ports :
              (/\ AutoTaskStep
               /\ extract_port(Head(readyTasks).text) = port
               /\ port \notin detectedPorts)
              => createCalls'[port] = createCalls[port] + 1]_vars

\* a first call for port 3000 failed, a later matching task called again and
\* that call succeeded: the port is handled and its event is with a client
C13_Witness ==
    /\ createCalls[3000] = 2
    /\ \E r \in 1..Len(tobj) : tobj[r].port = 3000 /\ tobj[r].status = "error"
    /\ 3000 \in detectedPorts
    /\ Len(eventLog) = 1
    /\ \E c \in 1..Len(conns) : forwarded[conns[c].tunnel_queue] = eventLog

\* ---- C14
\* the identifiers of the tunnels the active strategy holds
KnownIds == {tobj[StrategyRefs[i]].id : i \in 1..Len(StrategyRefs)}

\* C14: destroyTunnel with an identifier that names no tunnel of the active
\* strategy is answered with the validation error and changes neither the
\* strategy's state nor the session; it is never answered as a success.
C14_UnknownIdRejected ==
    [][\A id \in RestTunnelIds :
          (id \notin KnownIds /\ DestroyTunnel(id))
          => /\ resp' = Resp("destroy_tunnel", "not_found")
             /\ UNCHANGED <<stratVars, session, disk>>]_vars

\* ---- C15
\* C15: a stop() in progress always completes: whenever the registry is
\* waiting in pty.stop() for a terminal child, it eventually stops waiting,
\* whether or not the child honours the termination request.
C15_StopCompletes == \A pid \in Pids : (pid \in stopping) ~> (pid \notin stopping)

\* ---- C16
\* C16: every Quick createTunnel call that is waiting for the tunnel
\* client's public URL eventually ends, with a tunnel or with a provisioning
\* error, and the scheduling loop is never held up while it waits.
C16_CreateEventuallyEnds ==
    /\ (quickCalls # {}) ~> (quickCalls = {})
    /\ [](phase # "blocked")

\* ---- C17
Min(S) == CHOOSE x \in S : \A y \in S : x <= y

\* where the words of the loopback pattern stand in a line
LhAt(line) == {i \in 1..Len(line) : line[i].kind = "lh"}

\* where a port number stands after the first "listening"-like word
ListenAt(line) ==
    {j \in 1..Len(line) :
        /\ line[j].kind \in {"lh", "port"}
        /\ \E i \in 1..(j - 1) : line[i].kind = "run"}

\* C17: extract_port answers the port of the first loopback address in the
\* text if there is one, otherwise the port that follows the first
\* listening-like word, otherwise no port; "Server running at
\* http://localhost:3000" gives 3000, "App listening on port 8080" gives 8080,
\* and a line with neither gives no port.
C17_ExtractPort ==
    \A e \in SeqToSet(extracted) :
        /\ e.port = IF LhAt(e.text) # {} THEN e.text[Min(LhAt(e.text))].port
                    ELSE IF ListenAt(e.text) # {} THEN e.text[Min(ListenAt(e.text))].port
                    ELSE 0
        /\ e.text = <<Word("srv"), Word("run"), Lh(3000)>>
              => e.port = 3000 /\ MatchLocalhost(e.text) # <<>>
        /\ e.text = <<Word("txt"), Word("run"), PortWord(8080)>>
              => e.port = 8080 /\ MatchLocalhost(e.text) = <<>>
        /\ e.text = <<Word("txt")>> => e.port = 0

\* a line naming a listening port before a loopback address with another
\* port has been answered
C17_Witness ==
    extracted = <<[text |-> <<Word("run"), PortWord(8080), Lh(3000)>>, port |-> 3000]>>

\* ---- C18
\* the handlers called for one pattern, in the order they were called
CalledFor(inv, name) ==
    LET sel == SelectSeq(inv, LAMBDA e : e.pattern = name)
    IN [i \in 1..Len(sel) |-> sel[i].handler]

\* C18: a scan calls, for every pattern the line matches, every handler
\* registered for it in registration order, whichever of them raise, calls no
\* handler of a pattern the line does not match, and returns one match for
\* every matching pattern in pattern order.
C18_EveryHandlerInvoked ==
    [][\A line \in Lines, raising \in SUBSET Handlers :
          Scan(line, raising)
          => /\ \A i \in 1..Len(PatternNames) :
                    CalledFor(invoked', PatternNames[i]) =
                        IF Match(PatternNames[i], line) # <<>>
                        THEN callbacks[PatternNames[i]] ELSE <<>>
             /\ [i \in 1..Len(matches') |-> matches'[i].pattern_name] =
                    SelectSeq(PatternNames, LAMBDA n : Match(n, line) # <<>>)]_vars

\* the first handler of a pattern raised, a second handler of that pattern
\* and a handler of a later pattern were still called, three matches returned
C18_Witness ==
    /\ Len(invoked) = 3
    /\ invoked[1].raised
    /\ invoked[2].pattern = invoked[1].pattern
    /\ invoked[3].pattern # invoked[1].pattern
    /\ Len(matches) = 3

\* ---- C19
\* the tunnels of the active strategy that are Active and belong to session sid
ActiveOf(sid) ==
    {StrategyRefs[i] : i \in {j \in 1..Len(StrategyRefs) :
        /\ tobj[StrategyRefs[j]].status = "active"
        /\ tobj[StrategyRefs[j]].session_id = sid}}

\* C19: once the destroy request for a Session has completed, the active
\* strategy holds no Active tunnel of that Session, whether the tunnel was
\* there when the destroy was requested or was still being created.
C19_DestroyCascades ==
    \A sid \in Pids :
        (stopping = {} /\ (session = <<>> \/ session[1].id # sid)) => ActiveOf(sid) = {}

\* ---- C20
\* a mutating registry call other than send-raw-input completes successfully
SavedCallOk ==
    \/ CreateSession("ok") /\ resp' = Resp("create_session", "ok")
    \/ SendCommand /\ resp' = Resp("send_command", "ok")
    \/ (\E port \in RestPorts : CreateTunnelStep(port)) /\ resp' = Resp("create_tunnel", "ok")
    \/ (\E c \in quickCalls, out \in ResumeOutcomes : QuickResume(c, out))
          /\ resp' = Resp("create_tunnel", "ok")
    \/ (\E id \in RestTunnelIds : DestroyTunnel(id)) /\ resp' = Resp("destroy_tunnel", "ok")

\* send-raw-input completes successfully
SendInputOk == SendInput /\ resp' = Resp("send_input", "ok")

\* the destroy request completes successfully
DestroyOk ==
    /\ DestroySession \/ \E pid \in Pids : DestroyResume(pid)
    /\ resp' = Resp("destroy_session", "ok")
    /\ session' = <<>>

\* the record on disk is the Session in memory, tunnels and activity time included
Persisted == session # <<>> => disk = <<Snapshot(session[1], tobj)>>

\* C20: every successful mutating registry call (create, send-command,
\* send-raw-input, tunnel added or removed) leaves the persisted record equal
\* to the in-memory Session, and a successful destroy leaves no record.
C20_PersistedEqualsMemory ==
    [][/\ (SavedCallOk \/ SendInputOk) => Persisted'
       /\ DestroyOk => disk' = <<>>]_vars

\* ---- C21
\* the terminal the registry holds is Running
TerminalRunning == pty # <<>> /\ pty[1].pid # NoPid /\ pty[1].running

\* C21 as stated: after resize(cols, rows) on a Running terminal the kernel
\* window size is exactly cols by rows, whatever the two numbers are.
C21_ResizeSetsAnySize ==
    \A p \in Pids :
        tty[p].asked # <<>> => <<tty[p].cols, tty[p].rows>> = tty[p].asked

\* C21: resize(cols, rows) on a Running terminal with both numbers in the
\* range of an unsigned short sets the kernel window size to exactly cols by
\* rows and signals a living child once; with a number outside that range,
\* or on a terminal that is not Running, it changes neither the window size
\* nor the descriptor and sends no signal.
C21_ResizeSetsFittingSize ==
    [][\A cols \in ResizeValues, rows \in ResizeValues :
          Resize(cols, rows)
          => IF TerminalRunning /\ cols <= UShortMax /\ rows <= UShortMax
             THEN /\ tty'[pty[1].pid].cols = cols
                  /\ tty'[pty[1].pid].rows = rows
                  /\ tty'[pty[1].pid].winch =
                        tty[pty[1].pid].winch
                        + (IF osProc[pty[1].pid] \in {"own", "deaf"} THEN 1 ELSE 0)
                  /\ \A p \in Pids \ {pty[1].pid} : tty'[p] = tty[p]
             ELSE \A p \in Pids : [tty'[p] EXCEPT !.asked = tty[p].asked] = tty[p]]_vars

\* resize(100, 40) has been made on a Running terminal and reads back
C21_Witness ==
    /\ TerminalRunning
    /\ tty[pty[1].pid].cols = 100
    /\ tty[pty[1].pid].rows = 40
    /\ tty[pty[1].pid].winch = 1
    /\ tty[pty[1].pid].asked = <<100, 40>>

\* ---- C22
\* the credential is present and authorized: signed by the server, not expired
Authorized(token) == token = "valid"

\* a frame of connection c is handed to the Session Registry
FrameReachesTerminal(c) ==
    \/ ReceiveInput(c)
    \/ \E cols \in ResizeValues, rows \in ResizeValues : ReceiveResize(c, cols, rows)

\* C22: a gateway connection whose credential is missing or not authorized
\* is closed without being accepted: it adds no subscription on the Fan-out
\* Hub, the Orchestrator or the log-event queue, starts no relay task, and
\* every frame that reaches the Terminal Process comes from a connection
\* accepted with an authorized credential.
C22_UnauthorizedClosed ==
    [][/\ \A token \in JwtTokens :
             Connect(token) /\ ~Authorized(token)
             => /\ resp' = Resp("websocket", "closed_1008")
                /\ UNCHANGED <<outputSubscribers, autoSubscribers, logSubscribers,
                               queues, conns, session, pty, tty>>
       /\ \A c \in 1..MaxConns :
             FrameReachesTerminal(c) => Authorized(conns[c].token)]_vars

\* a connection was refused while a terminal runs, and nothing is subscribed
C22_Witness ==
    /\ resp = Resp("websocket", "closed_1008")
    /\ TerminalRunning
    /\ conns = <<>>
    /\ outputSubscribers = <<>> /\ autoSubscribers = {} /\ logSubscribers = {}

\* ---- C23
\* a Session restored at startup: the record is there, no terminal handle is
RestoredNoHandle == phase = "up" /\ session # <<>> /\ pty = <<>>

ChildGone ==
    /\ phase = "up"
    /\ has_active_session
    /\ pty[1].pid # NoPid
    /\ osProc[pty[1].pid] = "none"
    /\ pty[1].pid \notin stopping

\* C24: once the terminal child has exited by itself, every step but a
\* destroy leaves the Session's status Running and has_active_session()
\* true; send-command and send-raw-input fail and change nothing, and
\* createSession is rejected.
C24_ExitLeavesSessionRunning ==
    [][ChildGone
       => /\ \/ DestroySession
             \/ \E pid \in Pids : DestroyResume(pid)
             \/ has_active_session' /\ session'[1].status = "running"
          /\ SendCommand => /\ resp' = Resp("send_command", "write_failed")
                            /\ UNCHANGED <<session, disk, pty>>
          /\ SendInput => /\ resp' = Resp("send_input", "write_failed")
                          /\ UNCHANGED <<session, disk, pty>>
          /\ \A fork \in {"ok", "fail"} :
                CreateSession(fork) => /\ resp' = Resp("create_session", "already_running")
                                       /\ UNCHANGED <<session, disk, pty, osProc>>]_vars

\* a create was rejected after the read loop saw the child exit
C24_Witness ==
    /\ ChildGone
    /\ ~pty[1].running
    /\ resp = Resp("create_session", "already_running")

\* ---- C25
\* C25: every tunnel-client process the Quick strategy spawned and that has
\* not been terminated is held by the process table under the identifier of
\* a tunnel in the tunnel map.
C25_ClientProcessesReachable ==
    \A p \in 1..Len(procs) :
        procs[p] = "alive"
        => \E i \in 1..Len(tunnelProcesses) :
              /\ tunnelProcesses[i].v = p
              /\ DictHas(quickTunnels, tunnelProcesses[i].k)

\* ---- C26
\* the state of the Terminal Process object
TermState ==
    IF pty = <<>> THEN "none"
    ELSE IF pty[1].running THEN "Running"
    ELSE IF pty[1].pid = NoPid THEN "NotStarted"
    ELSE "Stopped"

\* C26: the Terminal Process only moves NotStarted to Running to Stopped: a
\* start succeeds only from NotStarted, and from Stopped no step, a further
\* start included, leads back to Running.
C26_TerminalNeverRestarts ==
    [][/\ TermState = "Stopped" => TermState' \in {"Stopped", "none"}
       /\ TermState = "Running" => TermState' \in {"Running", "Stopped"}
       /\ PtyStart("ok") /\ resp' = Resp("start", "ok") => TermState = "NotStarted"]_vars

\* ---- C27
\* C27: a turn of the read loop that does not see the child's exit (no data
\* yet, another read error, an exception raised by the output callback)
\* leaves the terminal Running and the loop going; the turn that sees the
\* exit marks the terminal Stopped.
C27_LoopEndsOnlyOnExit ==
    [][\A read \in ReadOutcomes, cb \in CallbackOutcomes :
          ReadOutput(read, cb) => (pty'[1].running <=> read # "EIO")]_vars

\* ---- C28
\* a stop() call returns in this step
StopReturns ==
    \/ PtyStop /\ resp' = Resp("stop", "returned")
    \/ \E pid \in Pids : PtyStopResume(pid)

\* C28: after any stop() returns, whether the child was alive or had exited
\* on its own, the terminal is Stopped and its descriptor is released; a
\* further stop() changes nothing.
C28_StopReleasesDescriptor ==
    [][StopReturns
       => /\ ~pty'[1].running
          /\ pty'[1].pid # NoPid => tty'[pty'[1].pid].master_fd = "closed"
          /\ (PtyStop /\ TermState = "Stopped" /\ resp = Resp("stop", "returned"))
             => UNCHANGED vars]_vars

CountRule(rules, r) == Cardinality({i \in 1..Len(rules) : rules[i] = r})

\* the list ends with the catch-all, holds the root rule, one rule for each
\* mapped port and nothing else
IngressMatchesMap ==
    /\ ingress # <<>>
    /\ ingress[Len(ingress)] = CatchAll
    /\ CountRule(ingress, RootRule) = 1
    /\ CountRule(ingress, CatchAll) = 1
    /\ \A port \in Ports :
          CountRule(ingress, PortRule(port)) = IF DictHas(namedTunnels, port) THEN 1 ELSE 0
    /\ Len(ingress) = 2 + Len(namedTunnels)

\* addPortMapping(port) has mapped a port that was not mapped
AddsMapping(port) ==
    /\ isNamed
    /\ \E out \in NamedOutcomes : CreateTunnel(port, out)
    /\ ~DictHas(namedTunnels, port)
    /\ DictHas(namedTunnels', port)

\* C30: after Named initialize() and any sequence of addPortMapping and
\* removePortMapping calls the ingress list ends with the catch-all rule,
\* contains the root-domain rule, exactly one rule for each port in the
\* strategy's tunnel map and none for another port; and removePortMapping(p)
\* right after an addPortMapping(p) that mapped p gives back the rule list,
\* the tunnel map and Session.tunnels as they were before.
C30_IngressFollowsMap ==
    [][/\ (phase' = "up" /\ isNamed') => IngressMatchesMap'
       /\ \A port \in Ports :
             AddsMapping(port)
             => /\ NamedRemove(CurW', port).ingress = ingress
                /\ NamedRemove(CurW', port).nt = namedTunnels
                /\ NamedRemove(CurW', port).session[1].tunnels = session[1].tunnels]_vars

\* both ports are mapped, 8080 first
C30_Witness ==
    /\ isNamed /\ phase = "up"
    /\ ingress = <<RootRule, PortRule(8080), PortRule(3000), CatchAll>>
    /\ DictKeys(namedTunnels) = <<8080, 3000>>

\* ---- C31
\* a Quick createTunnel call that made tunnel ref ends in this step: at once,
\* or when its wait for the URL is over
QuickEnds(ref) ==
    /\ ~isNamed
    /\ \/ \E c \in quickCalls, out \in ResumeOutcomes : QuickResume(c, out) /\ c.ref = ref
       \/ /\ \E port \in Ports, out \in QuickOutcomes : CreateTunnel(port, out)
          /\ Len(tobj') = ref /\ Len(tobj) = ref - 1
          /\ tobj'[ref].status # "creating"

\* C31: a Quick createTunnel call either returns a tunnel that is Active,
\* has a public URL and is in Session.tunnels, or raises a provisioning
\* error leaving the tunnel with status Error, absent from Session.tunnels
\* and the persisted record unchanged; no tunnel is Active with an empty URL.
C31_ActiveOrError ==
    [][/\ \A ref \in 1..MaxRefs :
             QuickEnds(ref)
             => \/ /\ tobj'[ref].status = "active"
                   /\ tobj'[ref].public_url # ""
                   /\ session' # <<>> /\ ref \in SeqToSet(session'[1].tunnels)
                \/ /\ tobj'[ref].status = "error"
                   /\ session' # <<>> => ref \notin SeqToSet(session'[1].tunnels)
                   /\ disk' = disk
       /\ \A i \in 1..Len(tobj') :
             tobj'[i].status = "active" => tobj'[i].public_url # ""]_vars

\* ---- C32
\* the relays that have passed a chunk to the Pattern Scanner
ScannedBy(chunk) ==
    {c \in 1..Len(conns) : chunk \in SeqToSet(forwarded[conns[c].pty_output_queue])}

\* C32: no chunk the Fan-out Hub broadcast is passed to the Pattern Scanner
\* more than once, however many viewers are connected.
C32_ScannedOnce ==
    \A i \in 1..Len(outputLog) : Cardinality(ScannedBy(outputLog[i])) <= 1

\* ---- C33
\* C33: a port in the Orchestrator's handled-port set stays there through
\* every step, the destroy of its tunnel and of the session included, and a
\* handler run for a line naming that port, in the same or a later session,
\* makes no createTunnel call.
C33_HandledPortStays ==
    [][\A port \in Ports :
          port \in detectedPorts
          => /\ port \in detectedPorts'
             /\ \A out \in Outcomes :
                   (AutoTaskRun(out) /\ extract_port(Head(readyTasks).text) = port)
                   => /\ createCalls'[port] = createCalls[port]
                      /\ UNCHANGED <<tobj, procs, quickCalls, quickTunnels>>]_vars

\* port 3000 was handled in the first session; in the second one its line
\* has been scanned again and the handler has run without a call
C33_Witness ==
    /\ 3000 \in detectedPorts
    /\ session # <<>> /\ session[1].id = 3
    /\ \A i \in 1..Len(tobj) : tobj[i].status # "active"
    /\ scans = 2 /\ readyTasks = <<>>
    /\ createCalls[3000] = 1

\* ---- C34
\* connection c is still open and the hub no longer holds its queue: a
\* destroy_session has completed since it connected
Dropped(c) ==
    /\ c \in 1..Len(conns)
    /\ conns[c].waiting
    /\ conns[c].pty_output_queue \notin SeqToSet(outputSubscribers)

DestroyedOk ==
    /\ DestroySession \/ \E pid \in Pids : DestroyResume(pid)
    /\ resp' = Resp("destroy_session", "ok")

\* C34: a destroy_session that succeeds leaves the Fan-out Hub without
\* subscribers, the log buffer empty and the command counter at 0; from then
\* on a viewer that was connected gets no chunk of any later session on its
\* queue, is never subscribed again, and the unsubscribe of its handler's
\* finally block changes nothing and reports no error.
C34_DestroyDropsViewers ==
    [][/\ DestroyedOk
          => outputSubscribers' = <<>> /\ log_buffer' = <<>> /\ command_count' = 0
       /\ \A c \in 1..MaxConns :
             Dropped(c)
             => /\ forwarded'[conns[c].pty_output_queue] \o
                      queues'[conns[c].pty_output_queue].items
                   = Seen(conns[c].pty_output_queue)
                /\ conns[c].pty_output_queue \notin SeqToSet(outputSubscribers')
                /\ WaitReturns(c) => outputSubscribers' = outputSubscribers /\ resp' = resp
      ]_vars

\* the first viewer saw the first session's chunk and a destroy dropped it;
\* the second session has since produced a chunk that the still open
\* connection did not get
C34_Witness ==
    /\ Dropped(1)
    /\ session # <<>> /\ session[1].id = 3
    /\ Len(outputLog) = 2
    /\ Seen(conns[1].pty_output_queue) = <<outputLog[1]>>
    /\ command_count = 0 /\ log_buffer = <<>>

\* ---- C40
\* C40: after any sequence of add_log_entry calls the log buffer holds at
\* most log_buffer_size entries, and they are the entries most recently
\* handed over while a session existed, in the order they were added; an
\* entry handed over while no session exists is not in it.
C40_BufferKeepsNewest ==
    /\ Len(log_buffer) <= log_buffer_size
    /\ log_buffer = LastN(logged, log_buffer_size)
    /\ get_recent_logs(log_buffer, 1) = LastN(logged, 1)

\* three entries were added in one session and the oldest has been evicted
C40_Witness ==
    /\ Len(logged) = MaxLogs
    /\ Len(log_buffer) = log_buffer_size
    /\ log_buffer[1] = logged[2]
    /\ logged[1].content # logged[2].content

\* ---- C35
\* the ports of the tunnels the active strategy holds
HeldPorts(refs) == {tobj[refs[i]].port : i \in 1..Len(refs)}

\* C35: destroy_all_tunnels never raises; every tunnel the strategy held when
\* it was called and whose destroy does not fail is gone afterwards, whatever
\* the failures of the others, and only the failing ones remain.
C35_DestroyAllNeverRaises ==
    [][\A failing \in SUBSET Ports :
          DestroyAllTunnels(failing)
          => /\ resp' = Resp("destroy_all_tunnels", "returned")
             /\ IF isNamed
                THEN HeldPorts(DictValues(namedTunnels')) =
                        HeldPorts(DictValues(namedTunnels)) \cap failing
                ELSE /\ HeldPorts(DictValues(quickTunnels')) \subseteq failing
                     /\ \A i \in 1..Len(quickTunnels) :
                           DictHas(quickTunnels', quickTunnels[i].k)
                           <=> tobj[quickTunnels[i].v].port \in failing]_vars

\* two tunnels were held, the destroy of the one on port 3000 failed, and the
\* call returned with only that one left
C35_Witness ==
    /\ resp = Resp("destroy_all_tunnels", "returned")
    /\ Len(tobj) = 2
    /\ HeldPorts(StrategyRefs) = {3000}
    /\ \E i \in 1..Len(tobj) : tobj[i].port = 8080 /\ tobj[i].status # "error"

\* ---- C36
\* an automatic createTunnel call succeeds in this step with event e
AutoSucceeds(e) ==
    \/ /\ \E out \in Outcomes : AutoTaskRun(out)
       /\ LET port == extract_port(Head(readyTasks).text)
          IN /\ port # 0 /\ port \notin detectedPorts /\ port \in detectedPorts'
             /\ \E r \in 1..Len(tobj') :
                   /\ tobj'[r].port = port /\ tobj'[r].status = "active"
                   /\ e = TunnelCreated(tobj'[r])
    \/ \E c \in quickCalls :
          /\ c.owner = "auto"
          /\ \E out \in ResumeOutcomes : QuickResume(c, out)
          /\ tobj'[c.ref].status = "active"
          /\ e = TunnelCreated(tobj'[c.ref])

\* the tunnel-created events a step can carry
Events == {TunnelCreated(tobj'[r]) : r \in 1..Len(tobj')}

\* C36: a successful automatic tunnel creation appends one tunnel-created
\* event to every Orchestrator subscriber queue that is not full, leaves a
\* full one and every other queue as they were, and completes in that step.
C36_OneEventPerSubscriber ==
    [][(\E e \in Events : AutoSucceeds(e))
       => \E e \in Events :
             /\ AutoSucceeds(e)
             /\ \A q \in 1..Len(queues) :
                   queues'[q].items =
                      IF q \in autoSubscribers /\ ~Full(queues[q])
                      THEN Append(queues[q].items, e)
                      ELSE queues[q].items]_vars

\* the first viewer's queue was full and has lost the event for port 3000;
\* the second one's had one place left and holds it as its last item
C36_Witness ==
    /\ 3000 \in detectedPorts
    /\ Len(eventLog) = 1
    /\ queues[2].items = Backlog(TunnelQueueMax)
    /\ queues[5].items = Append(Backlog(TunnelQueueMax - 1), eventLog[1])
    /\ queues[1].items # <<>>

\* ---- C37
\* the frames the dispatch has nothing to do for
IgnoredFrames == {"not_json", "json_array", "no_type", "unknown_type", "resize_bad_fields"}

\* C37: a text frame that is not JSON, or is JSON without a type the
\* dispatch knows, or is a pty_resize with unusable fields, changes nothing
\* but what is logged: the receive task and the other three keep running,
\* the connection keeps its three subscriptions, and the terminal, its size
\* and the session are as before.
C37_BadFrameIgnored ==
    [][\A c \in 1..MaxConns, frame \in IgnoredFrames :
          ReceiveText(c, frame)
          => /\ conns' = conns
             /\ conns[c].pty_output_queue \in SeqToSet(outputSubscribers)
                   => conns[c].pty_output_queue \in SeqToSet(outputSubscribers')
             /\ UNCHANGED <<outputSubscribers, autoSubscribers, logSubscribers>>
             /\ UNCHANGED <<sessVars, hubVars, tunVars, forwarded>>]_vars

\* the first viewer has sent a frame that is not JSON: it was logged, all
\* four tasks run and the three subscriptions stand
C37_Witness ==
    /\ resp = Resp("text_frame", "invalid_json_received")
    /\ conns # <<>> /\ conns[1].waiting
    /\ \A t \in TaskNames : conns[1].tasks[t] = "running"
    /\ conns[1].pty_output_queue \in SeqToSet(outputSubscribers)
    /\ conns[1].tunnel_queue \in autoSubscribers
    /\ conns[1].log_queue \in logSubscribers
    /\ TerminalRunning

\* ---- C38
\* the active strategy holds a tunnel under id whose client process is alive
HealthyTunnel(id) ==
    IF isNamed
    THEN \E i \in 1..Len(namedTunnels) : tobj[namedTunnels[i].v].id = id
    ELSE /\ DictHas(quickTunnels, id)
         /\ DictHas(tunnelProcesses, id)
         /\ procs[DictGet(tunnelProcesses, id)] = "alive"

\* C38: the facade's health check answers true or false for every
\* identifier under either strategy and never raises; it answers true only
\* for a tunnel the strategy holds and whose process is alive.
C38_HealthCheckAnswers ==
    [][\A id \in RestTunnelIds :
          HealthCheck(id)
          => /\ resp'.res \in {"true", "false"}
             /\ resp'.res = "true" => HealthyTunnel(id)]_vars

\* ---- C39
\* the registry has no running session with a terminal handle
NoActiveSession == session = <<>> \/ session[1].status # "running" \/ pty = <<>>

\* the Orchestrator calls createTunnel for the port in this step
AutoCalls(port) ==
    /\ AutoTaskStep
    /\ extract_port(Head(readyTasks).text) = port
    /\ port \notin detectedPorts

\* C39: a createTunnel call made while there is no active session, by a REST
\* client or by the Orchestrator and under either strategy, is refused: no
\* process is spawned, no ingress rule added, no tunnel recorded in the
\* strategy, the session or on disk, no call left pending, no event sent and
\* the port is not marked handled.
C39_NoSessionNoTunnel ==
    [][\A port \in Ports :
          (NoActiveSession /\ (CreateTunnelStep(port) \/ AutoCalls(port)))
          => /\ UNCHANGED <<stratVars, session, disk, detectedPorts, eventLog, quickCalls,
                            queues>>
             /\ CreateTunnelStep(port) => resp' = Resp("create_tunnel", "no_session")]_vars

\* a restored session without a terminal: a REST call was refused and the
\* Orchestrator's call for port 8080 left nothing behind
C39_Witness ==
    /\ session # <<>> /\ pty = <<>>
    /\ resp = Resp("create_tunnel", "no_session")
    /\ createCalls[8080] = 1
    /\ readyTasks = <<>>
    /\ 8080 \notin detectedPorts
    /\ procs = <<>> /\ quickTunnels = <<>> /\ namedTunnels = <<>>

====
